---- MODULE Spec2Model ----
(***************************************************************************)
(* A model of arcbox-labs/distro: the rootfs cache engine (distro-rootfs:  *)
(* cache.rs, lib.rs) and the download pipeline it calls (distro:           *)
(* download.rs, lxc.rs).                                                   *)
(*                                                                         *)
(* Representation.                                                         *)
(*  - A path is the sequence of its normal components below "/".           *)
(*  - A user-supplied string that is joined to a path (a version) is the   *)
(*    sequence of its tokens: maximal runs of non-separator characters,    *)
(*    and "/" for each separator.  "3.21" is <<"3.21">>, "1/2" is          *)
(*    <<"1", "/", "2">>.                                                   *)
(*  - A payload is a sequence of bytes.  SHA-256 is modelled as a          *)
(*    collision-free digest of the bounded payload domain, rendered in     *)
(*    lowercase hexadecimal like hex::encode does.                         *)
(*  - A timestamp string is the sequence of its decimal digits.            *)
(*  - The filesystem is a set of directories and a map from file paths to  *)
(*    file contents.                                                       *)
(***************************************************************************)
EXTENDS Integers, Sequences, FiniteSets, TLC

VARIABLES
    fs,      \* the filesystem: [dirs |-> set of paths, files |-> path -> content]
    now,     \* the system clock, in seconds since the Unix epoch
    calls,   \* per caller: the ensure() call in progress and its local state
    ret      \* what the last completed operation was and what it returned

vars == <<fs, now, calls, ret>>

----------------------------------------------------------------------------
(* Bounds of the model. *)

\* Longest payload, in bytes.
MaxLen == 1
\* The clock starts here and may advance MaxTicks times: 9 -> 10 changes the
\* number of decimal digits of the timestamp.
FirstTime == 9
MaxTicks == 1
\* Largest keep_latest argument given to prune.
MaxKeep == 2
\* Most directory removals that fail within one call of prune.
MaxFailures == 1

----------------------------------------------------------------------------
(* Sequences. *)

Range(s) == {s[i] : i \in DOMAIN s}

Last(s) == s[Len(s)]

Front(s) == SubSeq(s, 1, Len(s) - 1)

IsPrefix(p, q) == Len(p) <= Len(q) /\ SubSeq(q, 1, Len(p)) = p

\* All sequences over S of length at most n.
SeqsUpTo(S, n) == UNION {[1..k -> S] : k \in 0..n}

\* All orderings of a finite set, as sequences without repetition.
Perms(S) == {s \in [1..Cardinality(S) -> S] : Range(s) = S}

----------------------------------------------------------------------------
(* Digests and their text form. *)

Bytes == {0, 1}

Payloads == SeqsUpTo(Bytes, MaxLen)

\* Sha256::digest: a collision-free digest of a byte sequence (the sequence
\* read as a binary numeral after a leading 1).
RECURSIVE Sha256Digest(_)
Sha256Digest(data) ==
    IF data = <<>> THEN 1
    ELSE 2 * Sha256Digest(Front(data)) + Last(data)

HexDigits == <<"0", "1", "2", "3", "4", "5", "6", "7",
               "8", "9", "a", "b", "c", "d", "e", "f">>

\* hex::encode: lowercase hexadecimal, most significant digit first.
RECURSIVE HexEncode(_)
HexEncode(n) ==
    IF n < 16 THEN <<HexDigits[n + 1]>>
    ELSE Append(HexEncode(n \div 16), HexDigits[(n % 16) + 1])

\* format!("{}", secs): the decimal digits of a natural number.
RECURSIVE Decimal(_)
Decimal(n) ==
    IF n < 10 THEN <<n>>
    ELSE Append(Decimal(n \div 10), n % 10)

\* String::cmp on two digit strings: byte-wise lexicographic order, a proper
\* prefix being smaller.  -1, 0, 1 for Less, Equal, Greater.
RECURSIVE StrCmp(_, _)
StrCmp(a, b) ==
    IF a = <<>> /\ b = <<>> THEN 0
    ELSE IF a = <<>> THEN -1
    ELSE IF b = <<>> THEN 1
    ELSE IF a[1] < b[1] THEN -1
    ELSE IF a[1] > b[1] THEN 1
    ELSE StrCmp(Tail(a), Tail(b))

----------------------------------------------------------------------------
(* The distribution registry and the architectures (distro: lib.rs, arch.rs). *)

AllDistros == {"Alma", "Alpine", "Arch", "CentOS", "Debian", "Devuan", "Fedora",
               "Gentoo", "Kali", "NixOS", "OpenEuler", "OpenSuse", "Oracle",
               "Rocky", "Ubuntu", "Void"}

AllArchs == {"Aarch64", "X86_64"}

\* Distro::as_str: the identifier used in cache paths.
AsStr(d) ==
    CASE d = "Alma" -> "alma"
      [] d = "Alpine" -> "alpine"
      [] d = "Arch" -> "arch"
      [] d = "CentOS" -> "centos"
      [] d = "Debian" -> "debian"
      [] d = "Devuan" -> "devuan"
      [] d = "Fedora" -> "fedora"
      [] d = "Gentoo" -> "gentoo"
      [] d = "Kali" -> "kali"
      [] d = "NixOS" -> "nixos"
      [] d = "OpenEuler" -> "openeuler"
      [] d = "OpenSuse" -> "opensuse"
      [] d = "Oracle" -> "oracle"
      [] d = "Rocky" -> "rocky"
      [] d = "Ubuntu" -> "ubuntu"
      [] d = "Void" -> "void"

\* Distro::lxc_name: the name used in the image index.
LxcName(d) ==
    CASE d = "Alma" -> "almalinux"
      [] d = "Arch" -> "archlinux"
      [] d = "Rocky" -> "rockylinux"
      [] d = "Void" -> "voidlinux"
      [] OTHER -> AsStr(d)

\* Distro::lxc_release: the release name used in the image index.
LxcRelease(d, version) ==
    CASE d = "Ubuntu" ->
           (CASE version = <<"20.04">> -> <<"focal">>
              [] version = <<"22.04">> -> <<"jammy">>
              [] version = <<"24.04">> -> <<"noble">>
              [] version = <<"24.10">> -> <<"oracular">>
              [] version = <<"25.04">> -> <<"plucky">>
              [] OTHER -> version)
      [] d = "Debian" ->
           (CASE version = <<"10">> -> <<"buster">>
              [] version = <<"11">> -> <<"bullseye">>
              [] version = <<"12">> -> <<"bookworm">>
              [] version = <<"13">> -> <<"trixie">>
              [] OTHER -> version)
      [] d = "Devuan" ->
           (CASE version = <<"4">> -> <<"chimaera">>
              [] version = <<"5">> -> <<"daedalus">>
              [] version = <<"6">> -> <<"excalibur">>
              [] OTHER -> version)
      [] OTHER -> version

\* Arch::linux_name.
LinuxName(a) == IF a = "Aarch64" THEN "aarch64" ELSE "x86_64"

\* Arch::deb_name.
DebName(a) == IF a = "Aarch64" THEN "arm64" ELSE "amd64"

\* Arch::lxc_name.
ArchLxcName(a) == DebName(a)

----------------------------------------------------------------------------
(* Paths (std::path). *)

\* The directory RootfsManager::new was given.
CacheRoot == <<"cache">>

\* Path::components of a token string: separators split, empty components
\* vanish.
StrComponents(str) == SelectSeq(str, LAMBDA t : t # "/")

\* PathBuf::join(str) for a token string: a string that starts with a
\* separator is absolute and replaces the base.
PathJoin(base, str) ==
    IF str # <<>> /\ str[1] = "/" THEN StrComponents(str)
    ELSE base \o StrComponents(str)

\* PathBuf::join(name) for a string without separator: the empty name adds
\* no component.
PathJoinName(base, name) == IF name = "" THEN base ELSE Append(base, name)

\* Path::parent.
Parent(p) == Front(p)

\* RootfsManager::entry_dir.
EntryDir(d, version, a) ==
    PathJoinName(PathJoin(PathJoinName(CacheRoot, AsStr(d)), version), LinuxName(a))

\* entry_dir.components().rev().take(3), with the "unknown" default of get(i).
RevComponent(dir, i) ==
    IF i < Len(dir) THEN dir[Len(dir) - i]
    ELSE IF i = Len(dir) THEN "/"
    ELSE "unknown"

----------------------------------------------------------------------------
(* The image index client and the download pipeline (distro: lxc.rs,         *)
(* download.rs).                                                            *)

\* SHA-512 in hexadecimal: collision-free like Sha256Digest, and never the
\* text of a SHA-256 digest (that text has no leading zero here, and the
\* real ones differ in length).
Sha512Hex(data) == <<"0">> \o HexEncode(Sha256Digest(data))

Sha256Hex(data) == HexEncode(Sha256Digest(data))

\* MaxStr, but the least string.
MinStr(S) == CHOOSE x \in S : \A y \in S : StrCmp(y, x) # -1

\* The greatest string of a non-empty set of strings (Iterator::max on the
\* keys of a map).
MaxStr(S) == CHOOSE x \in S : \A y \in S : StrCmp(y, x) # 1

\* The names that end in "rootfs.tar.xz", among the file names of the model.
EndsWithRootfs(name) == name \in {"rootfs.tar.xz", "my-rootfs.tar.xz"}

\* str::rsplit('/').next() of a path given by its segments.
LastSegment(path) == IF path = <<>> THEN "" ELSE Last(path)

\* Mirror::image_url.
ImageUrl(mirror, path) == [base |-> mirror, path |-> path]

\* RootfsItems, but the path is looked at before the type.
RootfsItems_PathFirst(items) ==
    LET byType == {k \in DOMAIN items : items[k].ftype = "root.tar.xz"}
        byPath == {k \in DOMAIN items : EndsWithRootfs(LastSegment(items[k].path))} IN
    IF byPath # {} THEN byPath ELSE byType

\* The items resolve_from_index may take as the rootfs of a build: one whose
\* type is "root.tar.xz" when there is one, else one whose path ends in
\* "rootfs.tar.xz"; the map is iterated in an unspecified order.
RootfsItems(items) ==
    LET byType == {k \in DOMAIN items : items[k].ftype = "root.tar.xz"}
        byPath == {k \in DOMAIN items : EndsWithRootfs(LastSegment(items[k].path))} IN
    IF byType # {} THEN byType ELSE byPath

\* ProductKey, but variant "cloud" is tried first.
ProductKey_CloudFirst(index, distro, version, arch) ==
    LET key(variant) ==
            <<LxcName(distro), LxcRelease(distro, version), ArchLxcName(arch), variant>> IN
    IF key("cloud") \in DOMAIN index.products THEN <<key("cloud")>>
    ELSE IF key("default") \in DOMAIN index.products THEN <<key("default")>>
    ELSE <<>>

\* The product key resolve_from_index finds: variant "default", then "cloud".
ProductKey(index, distro, version, arch) ==
    LET key(variant) ==
            <<LxcName(distro), LxcRelease(distro, version), ArchLxcName(arch), variant>> IN
    IF key("default") \in DOMAIN index.products THEN <<key("default")>>
    ELSE IF key("cloud") \in DOMAIN index.products THEN <<key("cloud")>>
    ELSE <<>>

\* LxcClient::resolve_from_index; pick is the item key the iteration meets.
ResolveFromIndex(index, mirror, distro, version, arch, pick) ==
    LET found == ProductKey(index, distro, version, arch) IN
    IF found = <<>>
    THEN [status |-> "Err", err |-> "ProductNotFound", distro |-> AsStr(distro),
          version |-> version, arch |-> ArchLxcName(arch)]
    ELSE LET product == index.products[found[1]]
             notFound == [status |-> "Err", err |-> "RootfsNotFound",
                          product_key |-> found[1]] IN
         IF DOMAIN product.versions = {} THEN notFound
         ELSE LET items == product.versions[MaxStr(DOMAIN product.versions)].items IN
              IF RootfsItems(items) = {} THEN notFound
              ELSE LET rootfs_item == items[pick] IN
                   [status |-> "Ok",
                    resolved |-> [url |-> ImageUrl(mirror, rootfs_item.path),
                                  sha256 |-> rootfs_item.sha256,
                                  size |-> rootfs_item.size,
                                  filename |-> LastSegment(rootfs_item.path)]]

\* The item keys pick ranges over.
ResolvePicks(index, distro, version, arch) ==
    LET found == ProductKey(index, distro, version, arch) IN
    IF found = <<>> THEN {"-"}
    ELSE LET product == index.products[found[1]] IN
         IF DOMAIN product.versions = {} THEN {"-"}
         ELSE LET items == product.versions[MaxStr(DOMAIN product.versions)].items IN
              IF RootfsItems(items) = {} THEN {"-"} ELSE RootfsItems(items)

\* download_from_lxc after the payload has arrived: the digest against the
\* hash of the index.
LxcVerify(resolved, data) ==
    LET sha256 == Sha256Hex(data) IN
    IF sha256 # resolved.sha256
    THEN [status |-> "Err", err |-> "ChecksumMismatch",
          expected |-> resolved.sha256, actual |-> sha256]
    ELSE [status |-> "Ok",
          result |-> [data |-> data, sha256 |-> sha256, filename |-> resolved.filename]]

\* ActualHash, but always the SHA-256 digest.
ActualHash_Sha256Only(result, algorithm) == result.sha256

\* actual_hash.
ActualHash(result, algorithm) ==
    IF algorithm = "Sha256" THEN result.sha256 ELSE Sha512Hex(result.data)

\* VerifyHash, but the two hashes of the error are exchanged.
VerifyHash_Swapped(expected, result, algorithm) ==
    LET actual == ActualHash(result, algorithm) IN
    IF actual # expected
    THEN [status |-> "Err", err |-> "ChecksumMismatch",
          expected |-> actual, actual |-> expected]
    ELSE [status |-> "Ok"]

\* verify_hash.
VerifyHash(expected, result, algorithm) ==
    LET actual == ActualHash(result, algorithm) IN
    IF actual # expected
    THEN [status |-> "Err", err |-> "ChecksumMismatch",
          expected |-> expected, actual |-> actual]
    ELSE [status |-> "Ok"]

----------------------------------------------------------------------------
(* The filesystem (std::fs). *)

\* A file's content: raw bytes, or the JSON text of a metadata record.
Blob(data) == [kind |-> "bytes", data |-> data]

JsonText(meta) == [kind |-> "json", meta |-> meta]

\* The filesystem RootfsManager::new leaves: the cache root exists, empty.
EmptyFs == [dirs |-> {CacheRoot}, files |-> [p \in {} |-> Blob(<<>>)]]

IsDir(f, p) == p = <<>> \/ p \in f.dirs

IsFile(f, p) == p \in DOMAIN f.files

\* Path::exists.
Exists(f, p) == IsDir(f, p) \/ IsFile(f, p)

\* The entries of a directory (std::fs::read_dir).
ReadDir(f, p) ==
    {q \in f.dirs \cup DOMAIN f.files : Len(q) = Len(p) + 1 /\ IsPrefix(p, q)}

\* The files below a directory, at any depth.
FilesUnder(f, p) == {q \in DOMAIN f.files : IsPrefix(p, q) /\ q # p}

DirsUnder(f, p) == {q \in f.dirs : IsPrefix(p, q)}

\* std::fs::create_dir_all: every missing ancestor is created; it fails when
\* a component of the path is a file.
CreateDirAll(f, p) ==
    LET prefixes == {SubSeq(p, 1, k) : k \in 1..Len(p)} IN
    IF \E q \in prefixes : IsFile(f, q)
    THEN [ok |-> FALSE, fs |-> f]
    ELSE [ok |-> TRUE, fs |-> [f EXCEPT !.dirs = @ \cup prefixes]]

\* The directories create_dir_all(p) has to make, the path to p included.
MissingDirs(f, p) == {SubSeq(p, 1, k) : k \in 1..Len(p)} \ f.dirs

\* create_dir_all(p) refused at a mkdir after kept of the missing
\* directories were made, the outermost first.
CreateDirAllCut(f, p, kept) ==
    LET missing == MissingDirs(f, p)
        made == {q \in missing : Cardinality({r \in missing : Len(r) < Len(q)}) < kept} IN
    [ok |-> FALSE, fs |-> [f EXCEPT !.dirs = @ \cup made]]

\* std::fs::write: creates or replaces the file; it fails when the path is a
\* directory or its parent is not one.
WriteFile(f, p, content) ==
    IF IsDir(f, p) \/ ~IsDir(f, Parent(p))
    THEN [ok |-> FALSE, fs |-> f]
    ELSE [ok |-> TRUE,
          fs |-> [f EXCEPT !.files =
                    [q \in DOMAIN @ \cup {p} |-> IF q = p THEN content ELSE @[q]]]]

\* What is at the paths of S and below them.
Below(f, S) ==
    [gone |-> {q \in DOMAIN f.files : \E c \in S : IsPrefix(c, q)},
     dirs |-> {q \in f.dirs : \E c \in S : IsPrefix(c, q)}]

\* What a remove_dir_all(p) that fails has deleted.  The removal walks the
\* directory in the order of read_dir, deletes what is below each entry and
\* then the entry, and stops at the first call that is refused: some of the
\* entries of p are gone with all they held, at most one sub-directory is
\* left partly removed, and p itself remains.
RECURSIVE PartialRemovals(_, _)
PartialRemovals(f, p) ==
    LET children == ReadDir(f, p) IN
    UNION {{Below(f, S)}
             \cup UNION {{[gone |-> Below(f, S).gone \cup o.gone,
                            dirs |-> Below(f, S).dirs \cup o.dirs] :
                             o \in PartialRemovals(f, c)} :
                            c \in (children \ S) \cap f.dirs} :
             S \in SUBSET children}

\* The outcome of a remove_dir_all(p) that succeeds.
FullRemoval(f, p) ==
    [ok |-> TRUE, gone |-> FilesUnder(f, p), dirs |-> DirsUnder(f, p)]

\* What a call of std::fs::remove_dir_all(p) may do: it succeeds, or it fails
\* after it has deleted a part of what p holds.
RemovalOutcomes(f, p) ==
    {FullRemoval(f, p)}
    \cup {[ok |-> FALSE, gone |-> o.gone, dirs |-> o.dirs] : o \in PartialRemovals(f, p)}

\* std::fs::remove_dir_all(p) with outcome rm.
RemoveDirAll(f, p, rm) ==
    IF ~(p \in f.dirs) THEN [ok |-> FALSE, fs |-> f]
    ELSE [ok |-> rm.ok,
          fs |-> [dirs |-> f.dirs \ rm.dirs,
                  files |-> [q \in DOMAIN f.files \ rm.gone |-> f.files[q]]]]

----------------------------------------------------------------------------
(* The cache engine (distro-rootfs: cache.rs). *)

MetadataFile == "metadata.json"

\* The digest of a file's content as verify_integrity computes it.  The JSON
\* text of a metadata record is no payload: its digest (0) differs from the
\* digest of every payload.
ContentDigest(content) ==
    IF content.kind = "bytes" THEN Sha256Digest(content.data) ELSE 0

\* chrono_now: the clock as a decimal string.
ChronoNow(t) == Decimal(t)

\* CachedRootfs::verify_integrity: the streaming digest of the archive file
\* against the stored hash; an I/O error when the archive is not a file.
VerifyIntegrity(f, cached) ==
    IF ~IsFile(f, cached.archive_path) THEN [status |-> "Err", err |-> "Io"]
    ELSE [status |-> "Ok",
          val |-> HexEncode(ContentDigest(f.files[cached.archive_path]))
                    = cached.metadata.sha256]

\* std::str::from_utf8 on the bytes of a file: whether they are well-formed
\* UTF-8 (one to four bytes per character, no overlong form, no surrogate).
RECURSIVE IsUtf8(_)
IsUtf8(data) ==
    LET n == Len(data)
        b(i) == data[i]
        cont(i) == i <= n /\ b(i) >= 128 /\ b(i) <= 191
        rest(k) == IsUtf8(SubSeq(data, k, n)) IN
    IF n = 0 THEN TRUE
    ELSE IF b(1) < 128 THEN rest(2)
    ELSE IF b(1) >= 194 /\ b(1) <= 223 THEN cont(2) /\ rest(3)
    ELSE IF b(1) = 224 THEN cont(2) /\ b(2) >= 160 /\ cont(3) /\ rest(4)
    ELSE IF b(1) = 237 THEN cont(2) /\ b(2) <= 159 /\ cont(3) /\ rest(4)
    ELSE IF b(1) >= 225 /\ b(1) <= 239 THEN cont(2) /\ cont(3) /\ rest(4)
    ELSE IF b(1) = 240 THEN cont(2) /\ b(2) >= 144 /\ cont(3) /\ cont(4) /\ rest(5)
    ELSE IF b(1) >= 241 /\ b(1) <= 243 THEN cont(2) /\ cont(3) /\ cont(4) /\ rest(5)
    ELSE IF b(1) = 244 THEN cont(2) /\ b(2) <= 143 /\ cont(3) /\ cont(4) /\ rest(5)
    ELSE FALSE

\* serde_json::from_str(&read_to_string(metadata_path)?)?: the file is read
\* as UTF-8 text, an I/O error when it is not; the text is decoded, a JSON
\* error when it is not the text of a metadata record.  The payloads of the
\* model are never such a text.
ReadMetadata(content) ==
    IF content.kind = "json" THEN [status |-> "Ok", metadata |-> content.meta]
    ELSE IF ~IsUtf8(content.data) THEN [status |-> "Err", err |-> "Io"]
    ELSE [status |-> "Err", err |-> "Json"]

\* load_entry with a missing archive reported as an I/O error.
LoadEntry_MissingArchiveIsError(f, entry_dir) ==
    LET metadata_path == Append(entry_dir, MetadataFile) IN
    IF ~Exists(f, metadata_path) THEN [status |-> "None"]
    ELSE IF ReadMetadata(f.files[metadata_path]).status = "Err"
    THEN ReadMetadata(f.files[metadata_path])
    ELSE LET metadata == ReadMetadata(f.files[metadata_path]).metadata
             archive_path == PathJoinName(entry_dir, metadata.filename) IN
         IF ~Exists(f, archive_path) THEN [status |-> "Err", err |-> "Io"]
         ELSE [status |-> "Some",
               cached |-> [archive_path |-> archive_path, metadata |-> metadata]]

\* load_entry: the entry of a directory, without verifying integrity.
LoadEntry(f, entry_dir) ==
    LET metadata_path == Append(entry_dir, MetadataFile) IN
    IF ~Exists(f, metadata_path) THEN [status |-> "None"]
    ELSE IF ~IsFile(f, metadata_path) THEN [status |-> "Err", err |-> "Io"]
    ELSE IF ReadMetadata(f.files[metadata_path]).status = "Err"
    THEN ReadMetadata(f.files[metadata_path])
    ELSE LET metadata == ReadMetadata(f.files[metadata_path]).metadata
             archive_path == PathJoinName(entry_dir, metadata.filename) IN
         IF ~Exists(f, archive_path) THEN [status |-> "None"]
         ELSE [status |-> "Some",
               cached |-> [archive_path |-> archive_path, metadata |-> metadata]]

\* load_cached that reports a corrupted entry as not cached and leaves it.
LoadCached_NoEviction(f, entry_dir, rm) ==
    LET e == LoadEntry(f, entry_dir) IN
    IF e.status # "Some" THEN [ret |-> e, fs |-> f]
    ELSE LET v == VerifyIntegrity(f, e.cached) IN
         IF v.status = "Err" THEN [ret |-> v, fs |-> f]
         ELSE IF ~v.val THEN [ret |-> [status |-> "None"], fs |-> f]
         ELSE [ret |-> e, fs |-> f]

\* load_cached: the entry of a directory, verified; a corrupted entry is
\* removed (rm is what that removal does) and reported as not cached.
LoadCached(f, entry_dir, rm) ==
    LET e == LoadEntry(f, entry_dir) IN
    IF e.status # "Some" THEN [ret |-> e, fs |-> f]
    ELSE LET v == VerifyIntegrity(f, e.cached) IN
         IF v.status = "Err" THEN [ret |-> v, fs |-> f]
         ELSE IF ~v.val
         THEN [ret |-> [status |-> "None"], fs |-> RemoveDirAll(f, entry_dir, rm).fs]
         ELSE [ret |-> e, fs |-> f]

\* The metadata store derives for a download result.
StoreMetadata(entry_dir, result, t) ==
    [distro |-> RevComponent(entry_dir, 2),
     version |-> RevComponent(entry_dir, 1),
     arch |-> RevComponent(entry_dir, 0),
     sha256 |-> result.sha256,
     filename |-> result.filename,
     size |-> Len(result.data),
     downloaded_at |-> ChronoNow(t)]

\* std::fs::write(dir.join(name), content): the join of the empty name is
\* the directory path with a trailing separator, which cannot be opened for
\* writing whether or not the directory is there.
WriteNamed(f, dir, name, content) ==
    IF name = "" THEN [ok |-> FALSE, fs |-> f]
    ELSE WriteFile(f, Append(dir, name), content)

\* No call of the disk is refused.
NoFault == [at |-> "none", kept |-> 0]

\* What the disk may refuse in a store of data.  "archive" and "metadata":
\* the file cannot be opened.  "archive_write" and "metadata_write": the file
\* was opened (created or truncated) and the write fails after kept bytes
\* (a full disk, a file size limit).  Of the metadata text the model knows
\* the first byte only.
StoreFaults(data) ==
    {[at |-> a, kept |-> 0] : a \in {"none", "archive", "metadata"}}
    \cup {[at |-> "archive_write", kept |-> k] : k \in 0..(Len(data) - 1)}
    \cup {[at |-> "metadata_write", kept |-> k] : k \in 0..1}

\* What a file is left with by a write that failed after kept bytes.
CutArchive(data, kept) == Blob(SubSeq(data, 1, kept))

\* The text of a metadata record begins with "{" (byte 123).
CutMetadata(kept) == Blob(SubSeq(<<123>>, 1, kept))

\* store: writes the archive, then the metadata sidecar.  io is what the
\* disk refuses (see StoreFaults).
Store(f, entry_dir, result, t, io) ==
    LET archive_path == PathJoinName(entry_dir, result.filename)
        failed == [status |-> "Err", err |-> "Io"]
        w1 == WriteNamed(f, entry_dir, result.filename, Blob(result.data)) IN
    IF io.at = "archive" \/ ~w1.ok THEN [ret |-> failed, fs |-> f]
    ELSE IF io.at = "archive_write"
    THEN [ret |-> failed,
          fs |-> WriteFile(f, archive_path, CutArchive(result.data, io.kept)).fs]
    ELSE LET metadata == StoreMetadata(entry_dir, result, t)
             metadata_path == Append(entry_dir, MetadataFile)
             w2 == WriteFile(w1.fs, metadata_path, JsonText(metadata)) IN
         IF io.at = "metadata" \/ ~w2.ok THEN [ret |-> failed, fs |-> w1.fs]
         ELSE IF io.at = "metadata_write"
         THEN [ret |-> failed,
               fs |-> WriteFile(w1.fs, metadata_path, CutMetadata(io.kept)).fs]
         ELSE [ret |-> [status |-> "Ok",
                        cached |-> [archive_path |-> archive_path,
                                    metadata |-> metadata]],
               fs |-> w2.fs]

SubDirs(f, p) == {q \in ReadDir(f, p) : IsDir(f, q)}

\* The directories list_all loads: three levels below the cache root.
ArchDirs(f, cache_dir) ==
    UNION {UNION {SubDirs(f, version_dir) : version_dir \in SubDirs(f, distro_dir)} :
             distro_dir \in SubDirs(f, cache_dir)}

\* The entry directories load_entry fails on.
Failing(f, cache_dir) ==
    {arch_dir \in ArchDirs(f, cache_dir) : LoadEntry(f, arch_dir).status = "Err"}

\* The directory a listing may stop at: read_dir yields the directories in
\* an order that is not specified, so any of the failing ones may come
\* first; the empty path when none fails.
ListFirsts(f, cache_dir) ==
    LET failing == Failing(f, cache_dir) IN
    IF failing = {} THEN {<<>>} ELSE failing

\* A variant of list_all for which a missing cache root is an error.
ListAll_MissingRootIsError(f, cache_dir, first) ==
    IF ~IsDir(f, cache_dir) THEN [status |-> "Err", err |-> "Io"]
    ELSE LET loaded == {LoadEntry(f, arch_dir) : arch_dir \in ArchDirs(f, cache_dir)} IN
         IF \E e \in loaded : e.status = "Err"
         THEN [status |-> "Err", err |-> LoadEntry(f, first).err]
         ELSE [status |-> "Ok",
               entries |-> {e.cached : e \in {x \in loaded : x.status = "Some"}}]

\* A variant of list_all that leaves out the entries whose archive does not
\* match the stored hash.
ListAll_Verified(f, cache_dir, first) ==
    IF ~Exists(f, cache_dir) THEN [status |-> "Ok", entries |-> {}]
    ELSE IF ~IsDir(f, cache_dir) THEN [status |-> "Err", err |-> "Io"]
    ELSE LET loaded == {LoadEntry(f, arch_dir) : arch_dir \in ArchDirs(f, cache_dir)} IN
         IF \E e \in loaded : e.status = "Err"
         THEN [status |-> "Err", err |-> LoadEntry(f, first).err]
         ELSE [status |-> "Ok",
               entries |-> {e.cached : e \in {x \in loaded : x.status = "Some"
                                                /\ VerifyIntegrity(f, x.cached).status = "Ok"
                                                /\ VerifyIntegrity(f, x.cached).val}}]

\* list_all: every entry three levels below the cache root, unverified; it
\* returns the error of the first entry that fails to load, first being the
\* failing directory read_dir yields before the others (see ListFirsts).  The
\* order of the result is that of read_dir, which is unspecified: a set.
ListAll(f, cache_dir, first) ==
    IF ~Exists(f, cache_dir) THEN [status |-> "Ok", entries |-> {}]
    ELSE IF ~IsDir(f, cache_dir) THEN [status |-> "Err", err |-> "Io"]
    ELSE LET loaded == {LoadEntry(f, arch_dir) : arch_dir \in ArchDirs(f, cache_dir)} IN
         IF \E e \in loaded : e.status = "Err"
         THEN [status |-> "Err", err |-> LoadEntry(f, first).err]
         ELSE [status |-> "Ok",
               entries |-> {e.cached : e \in {x \in loaded : x.status = "Some"}}]

\* What list_all may return, one result for each order read_dir may yield
\* the directories in: one listing when every entry loads, and otherwise the
\* error of each entry that may come first.
ListAllResults(f, cache_dir) ==
    {ListAll(f, cache_dir, first) : first \in ListFirsts(f, cache_dir)}

\* The comparator prune sorts a group with: b.downloaded_at.cmp(&a.downloaded_at).
PruneCmp(a, b) == StrCmp(b.metadata.downloaded_at, a.metadata.downloaded_at)

\* What entries.sort_by(PruneCmp) may leave for a group whose listing order is
\* unspecified: the stable sort keeps the listing order of entries that
\* compare equal, so every ordering that the comparator accepts can result.
SortedGroup(group) ==
    {s \in Perms(group) :
       \A i, j \in 1..Len(s) : i < j => PruneCmp(s[i], s[j]) # 1}

\* entries.into_iter().skip(keep_latest).
SkipKeep(s, keep_latest) ==
    IF keep_latest >= Len(s) THEN <<>> ELSE SubSeq(s, keep_latest + 1, Len(s))

\* The entries prune may select for removal, in the order it removes them:
\* group after group in the order the HashMap yields them, which is not
\* specified, and within a group those beyond the first keep_latest of the
\* sorted group, in its order.
RECURSIVE VictimSeqs(_, _, _)
VictimSeqs(entries, distros, keep_latest) ==
    IF distros = {} THEN {<<>>}
    ELSE UNION {LET group == {e \in entries : e.metadata.distro = d}
                    mine == {SkipKeep(s, keep_latest) : s \in SortedGroup(group)}
                    others == VictimSeqs(entries, distros \ {d}, keep_latest) IN
                {m \o o : m \in mine, o \in others} :
                  d \in distros}

\* For each victim of F, what its refused removal has deleted.
RECURSIVE PlanOuts(_, _)
PlanOuts(f, F) ==
    IF F = {} THEN {<<>>}
    ELSE LET v == CHOOSE x \in F : TRUE
             parts == PartialRemovals(f, Parent(v.archive_path))
             rest == PlanOuts(f, F \ {v}) IN
         {(v :> o) @@ r : o \in parts, r \in rest}

\* What the removals of one prune call may do: those of the victims in
\* failed are refused, each after it has deleted the part out gives of what
\* its directory held.
PrunePlans(f, victims) ==
    UNION {{[failed |-> F, out |-> o] : o \in PlanOuts(f, F)} :
             F \in {X \in SUBSET Range(victims) : Cardinality(X) <= MaxFailures}}

\* What the removal of victim old does on filesystem f under a plan: of a
\* refused removal, the part of its outcome that is still there.
PruneRemoval(f, old, plan) ==
    LET parent == Parent(old.archive_path) IN
    IF old \in plan.failed
    THEN [ok |-> FALSE, gone |-> plan.out[old].gone \cap FilesUnder(f, parent),
          dirs |-> plan.out[old].dirs \cap DirsUnder(f, parent)]
    ELSE FullRemoval(f, parent)

\* PruneRemove, but the size of an entry counts whether or not its removal
\* succeeded.
RECURSIVE PruneRemove_CountsFailures(_, _, _, _)
PruneRemove_CountsFailures(f, victims, plan, freed) ==
    IF victims = <<>> THEN [fs |-> f, freed |-> freed, failed |-> {}]
    ELSE LET old == Head(victims)
             r == RemoveDirAll(f, Parent(old.archive_path), PruneRemoval(f, old, plan))
             rest == PruneRemove_CountsFailures(r.fs, Tail(victims), plan,
                                                freed + old.metadata.size) IN
         [rest EXCEPT !.failed = @ \cup (IF r.ok THEN {} ELSE {old})]

\* The loop over the selected entries, in their order: remove_dir_all of the
\* archive's parent directory, the size counted when that succeeded.  failed
\* are the entries whose removal did not succeed.
RECURSIVE PruneRemove(_, _, _, _)
PruneRemove(f, victims, plan, freed) ==
    IF victims = <<>> THEN [fs |-> f, freed |-> freed, failed |-> {}]
    ELSE LET old == Head(victims)
             r == RemoveDirAll(f, Parent(old.archive_path), PruneRemoval(f, old, plan))
             rest == PruneRemove(r.fs, Tail(victims), plan,
                                 IF r.ok THEN freed + old.metadata.size ELSE freed) IN
         [rest EXCEPT !.failed = @ \cup (IF r.ok THEN {} ELSE {old})]

\* prune: keeps at most keep_latest entries per distro; returns the bytes
\* freed.  first is where the listing stops when an entry fails to load.
Prune(f, cache_dir, keep_latest, first, victims, plan) ==
    LET all == ListAll(f, cache_dir, first) IN
    IF all.status = "Err" THEN [ret |-> all, fs |-> f, failed |-> {}]
    ELSE LET r == PruneRemove(f, victims, plan, 0) IN
         [ret |-> [status |-> "Ok", freed |-> r.freed], fs |-> r.fs, failed |-> r.failed]

\* The choices a call of prune is made with.
PruneVictims(f, cache_dir, keep_latest) ==
    LET results == ListAllResults(f, cache_dir) IN
    IF \E all \in results : all.status = "Err" THEN {<<>>}
    ELSE LET entries == UNION {all.entries : all \in results} IN
         VictimSeqs(entries, {e.metadata.distro : e \in entries}, keep_latest)

----------------------------------------------------------------------------
(* The cache functions called directly, as the unit tests of cache.rs call    *)
(* them, on entry directories whose files something outside the program may  *)
(* also change.                                                              *)

Procs == {1, 2}

IdleCall == [pc |-> "idle"]

\* The entry directories the functions are called on.
CacheDirs == {EntryDir("Alpine", <<"3.21">>, "Aarch64")}

\* A hash that is the digest of no payload ("deadbeef" in the tests).
DeadBeef == <<"d", "e", "a", "d", "b", "e", "e", "f">>

FileNames == {"rootfs.tar.xz", MetadataFile, ""}

\* make_test_result, and download results whose hash field is not the digest
\* of the payload.
DownloadResults ==
    {[data |-> d, sha256 |-> h, filename |-> n] :
       d \in Payloads, h \in {HexEncode(Sha256Digest(x)) : x \in Payloads} \cup {DeadBeef},
       n \in FileNames}

TestResults ==
    {r \in DownloadResults : r.sha256 \in {HexEncode(Sha256Digest(r.data)), DeadBeef}}

InitCache ==
    /\ fs = EmptyFs
    /\ now = FirstTime
    /\ calls = [p \in Procs |-> IdleCall]
    /\ ret = [op |-> "new"]

\* std::fs::create_dir_all(&entry) of the tests.
MakeEntryDir(dir) ==
    /\ ~IsDir(fs, dir)
    /\ fs' = CreateDirAll(fs, dir).fs
    /\ ret' = [op |-> "create_dir_all", dir |-> dir]
    /\ UNCHANGED <<now, calls>>

\* store(&entry, &result).
StoreOp(dir, result, io) ==
    LET r == Store(fs, dir, result, now, io) IN
    /\ fs' = r.fs
    /\ ret' = [op |-> "store", dir |-> dir, result |-> result, out |-> r.ret]
    /\ UNCHANGED <<now, calls>>

\* The call that returned last, for a lookup to be read as following it.
LastCall == IF ret.op = "store" THEN ret ELSE [op |-> ret.op]

\* load_cached(&entry).
LoadCachedOp(dir, rm) ==
    LET r == LoadCached(fs, dir, rm) IN
    /\ fs' = r.fs
    /\ ret' = [op |-> "load_cached", dir |-> dir, rm |-> rm, pre |-> fs,
               prev |-> LastCall, out |-> r.ret]
    /\ UNCHANGED <<now, calls>>

\* Something outside the program overwrites a file of the cache.
TamperFile(path, data) ==
    /\ IsFile(fs, path)
    /\ fs.files[path] # Blob(data)
    /\ fs' = WriteFile(fs, path, Blob(data)).fs
    /\ ret' = [op |-> "tamper", path |-> path]
    /\ UNCHANGED <<now, calls>>

\* Something outside the program deletes a file of the cache.
DeleteFile(path) ==
    /\ IsFile(fs, path)
    /\ fs' = [fs EXCEPT !.files = [q \in DOMAIN @ \ {path} |-> @[q]]]
    /\ ret' = [op |-> "delete", path |-> path]
    /\ UNCHANGED <<now, calls>>

NextCache ==
    \/ \E dir \in CacheDirs : MakeEntryDir(dir)
    \/ \E dir \in CacheDirs, result \in TestResults :
         \E io \in StoreFaults(result.data) : StoreOp(dir, result, io)
    \/ \E dir \in CacheDirs : \E rm \in RemovalOutcomes(fs, dir) : LoadCachedOp(dir, rm)
    \/ \E path \in DOMAIN fs.files, data \in Payloads : TamperFile(path, data)
    \/ \E path \in DOMAIN fs.files : DeleteFile(path)

SpecCache == InitCache /\ [][NextCache]_vars

----------------------------------------------------------------------------
(* Claims about store and load_cached (SpecCache). *)

\* The hash field of a download result is the SHA-256 of its payload.
HashOfPayload(result) == result.sha256 = HexEncode(Sha256Digest(result.data))

\* The entry of a directory is present and its archive digest differs from
\* the hash stored in its metadata.
PresentInvalid(f, dir) ==
    /\ LoadEntry(f, dir).status = "Some"
    /\ VerifyIntegrity(f, LoadEntry(f, dir).cached) = [status |-> "Ok", val |-> FALSE]

MetadataMissing(f, dir) == ~Exists(f, Append(dir, MetadataFile))

\* The metadata is there and decodes, the archive file it names is not there.
ArchiveMissing(f, dir) ==
    /\ IsFile(f, Append(dir, MetadataFile))
    /\ f.files[Append(dir, MetadataFile)].kind = "json"
    /\ ~Exists(f, PathJoinName(dir, f.files[Append(dir, MetadataFile)].meta.filename))

\* load_cached has just returned, called right after a successful store into
\* the same directory of a result whose hash is the digest of its payload.
LoadedAfterStore ==
    /\ ret.op = "load_cached"
    /\ ret.prev.op = "store"
    /\ ret.prev.dir = ret.dir
    /\ ret.prev.out.status = "Ok"
    /\ HashOfPayload(ret.prev.result)

\* C1: store followed by load_cached of the same directory returns a handle
\* whose metadata has the hash and the filename of the download result and
\* the length of its payload as size.
C1_RoundTrip ==
    LoadedAfterStore =>
        /\ ret.out.status = "Some"
        /\ ret.out.cached.metadata.sha256 = ret.prev.result.sha256
        /\ ret.out.cached.metadata.filename = ret.prev.result.filename
        /\ ret.out.cached.metadata.size = Len(ret.prev.result.data)

\* C2 as claimed: a lookup that finds a corrupted entry returns "not cached"
\* and the entry directory is gone when it returns; no lookup returns leaving
\* a present but invalid entry.
C2_NoPresentInvalid ==
    ret.op = "load_cached" =>
        /\ PresentInvalid(ret.pre, ret.dir) =>
             ret.out.status = "None" /\ ~Exists(fs, ret.dir)
        /\ ~PresentInvalid(fs, ret.dir)

\* C2, amended: a lookup that finds a corrupted entry returns "not cached";
\* when the removal of the entry directory succeeds the directory is gone
\* when the lookup returns and no invalid entry is left; when it fails, the
\* directory remains with the files the removal did not delete.
C2_EvictsWhenRemovalSucceeds ==
    (ret.op = "load_cached" /\ PresentInvalid(ret.pre, ret.dir)) =>
        /\ ret.out.status = "None"
        /\ ret.rm.ok => ~Exists(fs, ret.dir) /\ ~PresentInvalid(fs, ret.dir)
        /\ ~ret.rm.ok =>
             /\ IsDir(fs, ret.dir)
             /\ DOMAIN fs.files = DOMAIN ret.pre.files \ ret.rm.gone

\* A lookup found a stored archive that was tampered with, and removed the
\* entry directory.
C2_Witness ==
    /\ ret.op = "load_cached"
    /\ PresentInvalid(ret.pre, ret.dir)
    /\ LoadEntry(ret.pre, ret.dir).cached.metadata.filename = "rootfs.tar.xz"
    /\ ret.rm.ok
    /\ ~Exists(fs, ret.dir)

\* C3: load_cached returns "not cached", not an error, when the metadata file
\* is missing, when the archive the metadata names is missing, and when the
\* digest does not match, whatever the removal does; in the first two cases
\* the filesystem is left as it was.
C3_MissNotError ==
    ret.op = "load_cached" =>
        /\ MetadataMissing(ret.pre, ret.dir) => ret.out.status = "None" /\ fs = ret.pre
        /\ ArchiveMissing(ret.pre, ret.dir) => ret.out.status = "None" /\ fs = ret.pre
        /\ PresentInvalid(ret.pre, ret.dir) => ret.out.status = "None"

\* A lookup found a corrupted entry, the removal failed, and it returned
\* "not cached".
C3_Witness ==
    /\ ret.op = "load_cached"
    /\ PresentInvalid(ret.pre, ret.dir)
    /\ LoadEntry(ret.pre, ret.dir).cached.metadata.filename = "rootfs.tar.xz"
    /\ ~ret.rm.ok
    /\ ret.out.status = "None"

----------------------------------------------------------------------------
(* RootfsManager driven through its public functions by one caller: ensure,  *)
(* list_cached and prune, the network answering as it pleases.               *)

Caller == 1

\* Mirror::Official.
Mirror == "Official"

\* An item of the index whose type is "root.tar.xz".
RootItem(data, name) ==
    [ftype |-> "root.tar.xz", sha256 |-> Sha256Hex(data), size |-> Len(data),
     path |-> <<"images", name>>]

Build(item) == [items |-> ("root" :> item)]

\* The index the mirror serves: two builds of alpine 1, a cloud-only alpine 2,
\* a release whose name has a separator, and debian bookworm.
LxcIndex ==
    [products |->
       (<<"alpine", <<"1">>, "arm64", "default">> :>
            [versions |-> (<<1>> :> Build(RootItem(<<1>>, "rootfs.tar.xz"))
                           @@ <<2>> :> Build(RootItem(<<0>>, "rootfs.tar.xz")))])
       @@ (<<"alpine", <<"2">>, "arm64", "cloud">> :>
            [versions |-> (<<1>> :> Build(RootItem(<<1>>, "rootfs.tar.xz")))])
       @@ (<<"alpine", <<"1", "/", "2">>, "arm64", "default">> :>
            [versions |-> (<<1>> :> Build(RootItem(<<>>, "rootfs.tar.xz")))])
       @@ (<<"debian", <<"bookworm">>, "amd64", "default">> :>
            [versions |-> (<<1>> :> Build(RootItem(<<0>>, "rootfs.tar.xz")))])]

\* What response.json() of the index request may give: the body does not
\* arrive or does not decode (a reqwest error either way: Error::Http), or
\* the index.
IndexResponses ==
    {[status |-> "Err", err |-> "Http"], [status |-> "Ok", index |-> LxcIndex]}

\* The (distro, version, arch) the caller asks for: a plain version, a
\* version with a separator in it, and one the index has no product for.
Requests ==
    {<<"Alpine", <<"1">>, "Aarch64">>, <<"Alpine", <<"1", "/", "2">>, "Aarch64">>,
     <<"Alpine", <<"3">>, "Aarch64">>}

\* RootfsManager::new(CacheRoot): the cache directory is created, and empty.
Init ==
    /\ fs = EmptyFs
    /\ now = FirstTime
    /\ calls = [p \in Procs |-> IdleCall]
    /\ ret = [op |-> "new"]

\* What the removal in a lookup of directory dir may do: it runs only on an
\* entry that fails its verification.
LookupRemovals(f, dir) ==
    LET e == LoadEntry(f, dir) IN
    IF e.status = "Some" /\ VerifyIntegrity(f, e.cached) = [status |-> "Ok", val |-> FALSE]
    THEN RemovalOutcomes(f, dir)
    ELSE {FullRemoval(f, dir)}

\* An ensure call returns (or is dropped): what it did, and its outcome.
EnsureReturn(p, c, log, stage, out) ==
    /\ calls' = [calls EXCEPT ![p] = IdleCall]
    /\ ret' = [op |-> "ensure", call |-> c, log |-> log, stage |-> stage, out |-> out]

\* ensure, up to its first await: the lookup in the cache and, on a miss, the
\* GET of the index sent.  log is the sequence of what the call has done.
EnsureLookup(p, req, rm) ==
    /\ calls[p].pc = "idle"
    /\ LET entry_dir == EntryDir(req[1], req[2], req[3])
           r == LoadCached(fs, entry_dir, rm)
           c == [pc |-> "fetch_index", req |-> req, entry_dir |-> entry_dir,
                 lookup |-> r.ret.status, log |-> <<"GET index">>, fs0 |-> r.fs,
                 data |-> <<>>] IN
       /\ fs' = r.fs
       /\ IF r.ret.status = "None"
          THEN calls' = [calls EXCEPT ![p] = c] /\ ret' = [op |-> "await"]
          ELSE EnsureReturn(p, c, <<>>, "lookup",
                            IF r.ret.status = "Some"
                            THEN [status |-> "Ok", cached |-> r.ret.cached]
                            ELSE r.ret)
    /\ UNCHANGED now

\* The items the resolution of call p may meet in the answer resp.
IndexPicks(p, resp) ==
    IF calls[p].pc = "index_body" /\ resp.status = "Ok"
    THEN ResolvePicks(resp.index, calls[p].req[1], calls[p].req[2], calls[p].req[3])
    ELSE {"-"}

\* FetchIndex, but a failed GET of the index is sent once more.
FetchIndex_Retry(p, resp, pick) ==
    /\ calls[p].pc = "index_body"
    /\ LET c == calls[p] IN
       IF resp.status = "Err" /\ Len(c.log) < 2
       THEN /\ calls' = [calls EXCEPT ![p].log = Append(@, "GET index"),
                                      ![p].pc = "fetch_index"]
            /\ ret' = [op |-> "await"]
       ELSE IF resp.status = "Err" THEN EnsureReturn(p, c, c.log, "index", resp)
       ELSE LET r == ResolveFromIndex(resp.index, Mirror, c.req[1], c.req[2], c.req[3], pick) IN
            IF r.status = "Err" THEN EnsureReturn(p, c, c.log, "index", r)
            ELSE /\ calls' = [calls EXCEPT ![p] =
                                [pc |-> "download", req |-> c.req, entry_dir |-> c.entry_dir,
                                 lookup |-> c.lookup, log |-> Append(c.log, "GET archive"),
                                 fs0 |-> c.fs0, data |-> <<>>, resolved |-> r.resolved]]
                 /\ ret' = [op |-> "await"]
    /\ UNCHANGED <<fs, now>>

\* fetch_index at send().await: the request fails or is answered with an
\* error status, or the headers of the answer arrive.
FetchIndexSend(p, ok) ==
    /\ calls[p].pc = "fetch_index"
    /\ IF ok
       THEN calls' = [calls EXCEPT ![p].pc = "index_body"] /\ ret' = [op |-> "await"]
       ELSE EnsureReturn(p, calls[p], calls[p].log, "index",
                         [status |-> "Err", err |-> "Http"])
    /\ UNCHANGED <<fs, now>>

\* fetch_index at response.json().await: the index arrives and decodes, or
\* not; then LxcClient::resolve_from_index and the GET of the archive.
FetchIndex(p, resp, pick) ==
    /\ calls[p].pc = "index_body"
    /\ LET c == calls[p]
           log == c.log IN
       IF resp.status = "Err" THEN EnsureReturn(p, c, log, "index", resp)
       ELSE LET r == ResolveFromIndex(resp.index, Mirror, c.req[1], c.req[2], c.req[3], pick) IN
            IF r.status = "Err" THEN EnsureReturn(p, c, log, "index", r)
            ELSE /\ calls' = [calls EXCEPT ![p] =
                                [pc |-> "download", req |-> c.req, entry_dir |-> c.entry_dir,
                                 lookup |-> c.lookup, log |-> Append(log, "GET archive"),
                                 fs0 |-> c.fs0, data |-> <<>>, resolved |-> r.resolved]]
                 /\ ret' = [op |-> "await"]
    /\ UNCHANGED <<fs, now>>

\* download_url: one chunk of the body arrives.
DownloadChunk(p, chunk) ==
    /\ calls[p].pc = "download"
    /\ chunk # <<>>
    /\ Len(calls[p].data) + Len(chunk) <= MaxLen
    /\ calls' = [calls EXCEPT ![p].data = @ \o chunk]
    /\ ret' = [op |-> "await"]
    /\ UNCHANGED <<fs, now>>

\* download_url: the request or the stream fails.
DownloadFail(p) ==
    /\ calls[p].pc = "download"
    /\ EnsureReturn(p, calls[p], calls[p].log, "download", [status |-> "Err", err |-> "Http"])
    /\ UNCHANGED <<fs, now>>

\* The caller drops the ensure future at one of its awaits.
Abandon(p) ==
    /\ calls[p].pc \in {"fetch_index", "index_body", "download"}
    /\ EnsureReturn(p, calls[p], calls[p].log,
                    IF calls[p].pc = "download" THEN "download" ELSE "index",
                    [status |-> "Abandoned"])
    /\ UNCHANGED <<fs, now>>

\* EnsureTail, but the payload is stored before its digest is compared.
EnsureTail_StoreBeforeVerify(f, c, t, io) ==
    LET v == LxcVerify(c.resolved, c.data)
        m == CreateDirAll(f, c.entry_dir)
        unverified == [data |-> c.data, sha256 |-> Sha256Hex(c.data),
                       filename |-> c.resolved.filename]
        st == Store(m.fs, c.entry_dir, unverified, t, io) IN
    IF ~m.ok
    THEN [fs |-> f, log |-> c.log, stage |-> "mkdir", out |-> [status |-> "Err", err |-> "Io"]]
    ELSE IF io.at = "mkdir"
    THEN [fs |-> CreateDirAllCut(f, c.entry_dir, io.kept).fs, log |-> c.log,
          stage |-> "mkdir", out |-> [status |-> "Err", err |-> "Io"]]
    ELSE IF v.status = "Err"
    THEN [fs |-> st.fs, log |-> Append(Append(c.log, "store"), "verify"),
          stage |-> "verify", out |-> v]
    ELSE [fs |-> st.fs, log |-> Append(Append(c.log, "store"), "verify"),
          stage |-> "store", out |-> st.ret]

\* ensure once the body has arrived whole: the digest against the index,
\* create_dir_all of the entry directory, store.  io is what the disk
\* refuses (see EnsureFaults).
EnsureTail(f, c, t, io) ==
    LET v == LxcVerify(c.resolved, c.data)
        verified == Append(c.log, "verify") IN
    IF v.status = "Err" THEN [fs |-> f, log |-> verified, stage |-> "verify", out |-> v]
    ELSE LET m == CreateDirAll(f, c.entry_dir) IN
         IF ~m.ok
         THEN [fs |-> f, log |-> verified, stage |-> "mkdir",
               out |-> [status |-> "Err", err |-> "Io"]]
         ELSE IF io.at = "mkdir"
         THEN [fs |-> CreateDirAllCut(f, c.entry_dir, io.kept).fs, log |-> verified,
               stage |-> "mkdir", out |-> [status |-> "Err", err |-> "Io"]]
         ELSE LET st == Store(m.fs, c.entry_dir, v.result, t, io) IN
              [fs |-> st.fs, log |-> Append(verified, "store"), stage |-> "store",
               out |-> st.ret]

\* What the disk may refuse in the rest of ensure of call p: create_dir_all,
\* after kept of the missing directories were made, or a call of store.
\* create_dir_all can fail with every directory there as well (its mkdir is
\* refused and the is_dir that follows does not see the directory): it has
\* then made nothing, ensure returns Io and store is not called.
EnsureFaults(p) ==
    IF calls[p].pc # "download" THEN {}
    ELSE {[at |-> "mkdir", kept |-> k] :
            k \in {0} \cup
                  0..(Cardinality(MissingDirs(fs, calls[p].entry_dir)) - 1)}
         \cup StoreFaults(calls[p].data)

\* The stream of the body ends: the rest of ensure runs without an await.
EnsureFinish(p, io) ==
    /\ calls[p].pc = "download"
    /\ LET r == EnsureTail(fs, calls[p], now, io) IN
       /\ fs' = r.fs
       /\ EnsureReturn(p, calls[p], r.log, r.stage, r.out)
    /\ UNCHANGED now

\* RootfsManager::list_cached.
ListCached(p, first) ==
    /\ calls[p].pc = "idle"
    /\ ret' = [op |-> "list", out |-> ListAll(fs, CacheRoot, first)]
    /\ UNCHANGED <<fs, now, calls>>

\* RootfsManager::prune(keep_latest).
PruneOp(p, keep_latest, first, victims, plan) ==
    /\ calls[p].pc = "idle"
    /\ LET r == Prune(fs, CacheRoot, keep_latest, first, victims, plan) IN
       /\ fs' = r.fs
       /\ ret' = [op |-> "prune", keep_latest |-> keep_latest, failed |-> r.failed,
                  out |-> r.ret]
    /\ UNCHANGED <<now, calls>>

\* A second of the system clock passes.
Tick ==
    /\ now < FirstTime + MaxTicks
    /\ now' = now + 1
    /\ ret' = [op |-> "tick"]
    /\ UNCHANGED <<fs, calls>>

\* Something outside the program overwrites an archive while no call runs.
Corrupt(path, data) ==
    /\ calls[Caller].pc = "idle"
    /\ Last(path) # MetadataFile
    /\ TamperFile(path, data)

Next ==
    \/ \E req \in Requests :
         \E rm \in LookupRemovals(fs, EntryDir(req[1], req[2], req[3])) :
           EnsureLookup(Caller, req, rm)
    \/ \E ok \in BOOLEAN : FetchIndexSend(Caller, ok)
    \/ \E resp \in IndexResponses :
         \E pick \in IndexPicks(Caller, resp) : FetchIndex(Caller, resp, pick)
    \/ \E chunk \in Payloads : DownloadChunk(Caller, chunk)
    \/ DownloadFail(Caller)
    \/ Abandon(Caller)
    \/ \E io \in EnsureFaults(Caller) : EnsureFinish(Caller, io)
    \/ \E first \in ListFirsts(fs, CacheRoot) : ListCached(Caller, first)
    \/ \E keep_latest \in 0..MaxKeep, first \in ListFirsts(fs, CacheRoot) :
         \E victims \in PruneVictims(fs, CacheRoot, keep_latest) :
           \E plan \in PrunePlans(fs, victims) :
             PruneOp(Caller, keep_latest, first, victims, plan)
    \/ Tick
    \/ \E path \in DOMAIN fs.files, data \in Payloads : Corrupt(path, data)

Spec == Init /\ [][Next]_vars

----------------------------------------------------------------------------
(* Claims about ensure (Spec). *)

\* What a call of ensure that misses the cache does when nothing fails.
FullLog == <<"GET index", "GET archive", "verify", "store">>

\* The entry of directory dir is present and valid in filesystem f.
ValidEntry(f, dir) ==
    LET e == LoadEntry(f, dir) IN
    /\ e.status = "Some"
    /\ VerifyIntegrity(f, e.cached) = [status |-> "Ok", val |-> TRUE]

\* How far the log of a call that ended at a stage goes.
LogAt(stage) ==
    CASE stage = "lookup" -> <<>>
      [] stage = "index" -> SubSeq(FullLog, 1, 1)
      [] stage = "download" -> SubSeq(FullLog, 1, 2)
      [] stage \in {"verify", "mkdir"} -> SubSeq(FullLog, 1, 3)
      [] OTHER -> FullLog

\* C4: ensure returns the existing handle without any network request when
\* its lookup finds a valid cached entry; otherwise it does, in this order
\* and each at most once, the index fetch, the archive download, the hash
\* verification and the store, stops at the first failure and returns it:
\* it succeeds on a miss only when all four were done.
C4_HitOrOneDownload ==
    /\ \A p \in Procs :
         calls[p].pc # "idle" =>
           /\ calls[p].lookup = "None"
           /\ calls[p].log = IF calls[p].pc \in {"fetch_index", "index_body"}
                             THEN SubSeq(FullLog, 1, 1) ELSE SubSeq(FullLog, 1, 2)
    /\ ret.op = "ensure" =>
         /\ ret.call.lookup = "Some" <=> ValidEntry(ret.call.fs0, ret.call.entry_dir)
         /\ ret.call.lookup = "Some" =>
              /\ ret.log = <<>>
              /\ ret.out = [status |-> "Ok",
                            cached |-> LoadEntry(ret.call.fs0, ret.call.entry_dir).cached]
         /\ ret.call.lookup = "Err" => ret.log = <<>> /\ ret.out.status = "Err"
         /\ ret.call.lookup = "None" =>
              /\ ret.log = LogAt(ret.stage)
              /\ ret.out.status = "Ok" => ret.log = FullLog

\* A call of ensure found a valid entry, which an earlier call downloaded.
C4_Witness ==
    /\ ret.op = "ensure"
    /\ ret.call.lookup = "Some"
    /\ ret.log = <<>>
    /\ ret.out.status = "Ok"

\* The hash the index gave for the archive of a call.
ExpectedHash(c) == c.resolved.sha256

\* C5: an ensure call that fails or is abandoned during the index
\* resolution, the download or the checksum verification has changed nothing
\* in the filesystem since its lookup, and a call reaches the store only with
\* a payload whose digest is the hash of the index.
C5_NothingWrittenBeforeStore ==
    /\ \A p \in Procs : calls[p].pc # "idle" => fs = calls[p].fs0
    /\ ret.op = "ensure" =>
         /\ ret.stage \in {"index", "download", "verify"} =>
              /\ ret.out.status \in {"Err", "Abandoned"}
              /\ fs = ret.call.fs0
         /\ (\E i \in DOMAIN ret.log : ret.log[i] = "store") =>
              /\ ret.call.pc = "download"
              /\ Sha256Hex(ret.call.data) = ExpectedHash(ret.call)

\* A call of ensure failed at the checksum verification of a payload.
C5_Witness ==
    /\ ret.op = "ensure"
    /\ ret.stage = "verify"
    /\ ret.out.status = "Err"
    /\ ret.out.err = "ChecksumMismatch"
    /\ ~IsDir(fs, ret.call.entry_dir)

\* The version a request names, as the one string the spec takes it for.
SameString(component, version) == <<component>> = version

\* C9: the entry an ensure call creates for (d, v, a) is exactly three levels
\* below the cache root, at <root>/<slug(d)>/<v>/<kernel-name(a)>/, list
\* returns it, and its metadata names slug(d), v and kernel-name(a).
C9_EntryAtKey ==
    ret.op = "ensure" /\ ret.stage = "store" /\ ret.out.status = "Ok" =>
      LET cached == ret.out.cached
          dir == Parent(cached.archive_path)
          d == ret.call.req[1]
          v == ret.call.req[2]
          a == ret.call.req[3] IN
      /\ Len(dir) = Len(CacheRoot) + 3
      /\ SubSeq(dir, 1, Len(CacheRoot)) = CacheRoot
      /\ dir[Len(CacheRoot) + 1] = AsStr(d)
      /\ SameString(dir[Len(CacheRoot) + 2], v)
      /\ dir[Len(CacheRoot) + 3] = LinuxName(a)
      /\ \A all \in ListAllResults(fs, CacheRoot) :
           all.status = "Ok" /\ cached \in all.entries
      /\ cached.metadata.distro = AsStr(d)
      /\ SameString(cached.metadata.version, v)
      /\ cached.metadata.arch = LinuxName(a)

----------------------------------------------------------------------------
(* The same caller filling the cache with entries of two distributions and   *)
(* pruning it, the network delivering bytes of the indexed archive only,    *)
(* the disk refusing no write and nothing else touching the cache.           *)

PruneRequests ==
    {<<"Alpine", <<"1">>, "Aarch64">>, <<"Alpine", <<"2">>, "Aarch64">>,
     <<"Debian", <<"12">>, "X86_64">>}

\* The chunks that continue the body of call p when the network delivers the
\* archive of the index intact.
IntactChunks(p) ==
    IF calls[p].pc # "download" THEN {}
    ELSE {chunk \in Payloads :
            \E body \in Payloads :
              /\ Sha256Hex(body) = calls[p].resolved.sha256
              /\ IsPrefix(calls[p].data \o chunk, body)}

NextPrune ==
    \/ \E req \in PruneRequests :
         \E rm \in LookupRemovals(fs, EntryDir(req[1], req[2], req[3])) :
           EnsureLookup(Caller, req, rm)
    \/ \E ok \in BOOLEAN : FetchIndexSend(Caller, ok)
    \/ \E resp \in IndexResponses :
         \E pick \in IndexPicks(Caller, resp) : FetchIndex(Caller, resp, pick)
    \/ \E chunk \in IntactChunks(Caller) : DownloadChunk(Caller, chunk)
    \/ DownloadFail(Caller)
    \/ EnsureFinish(Caller, NoFault)
    \/ \E first \in ListFirsts(fs, CacheRoot) : ListCached(Caller, first)
    \/ \E keep_latest \in 0..MaxKeep, first \in ListFirsts(fs, CacheRoot) :
         \E victims \in PruneVictims(fs, CacheRoot, keep_latest) :
           \E plan \in PrunePlans(fs, victims) :
             PruneOp(Caller, keep_latest, first, victims, plan)
    \/ Tick

SpecPrune == Init /\ [][NextPrune]_vars

----------------------------------------------------------------------------
(* Claims about prune (SpecPrune). *)

\* The number a string of decimal digits denotes.
RECURSIVE Seconds(_)
Seconds(digits) ==
    IF digits = <<>> THEN 0 ELSE 10 * Seconds(Front(digits)) + Last(digits)

\* The entries list_cached returns for a filesystem f all of whose entries
\* load: no directory is then the first to fail, and the order of read_dir
\* does not show in the result.
Listed(f) == ListAll(f, CacheRoot, <<>>).entries

\* The entries of the distro group of e.
GroupOf(entries, e) == {x \in entries : x.metadata.distro = e.metadata.distro}

\* No two entries of a group were downloaded in the same second.
DistinctTimes(entries) ==
    \A x, y \in entries :
      x # y /\ x.metadata.distro = y.metadata.distro =>
        Seconds(x.metadata.downloaded_at) # Seconds(y.metadata.downloaded_at)

\* The entries of which fewer than keep_latest of the same group are more recent.
MostRecent(entries, keep_latest) ==
    {e \in entries :
       Cardinality({x \in GroupOf(entries, e) :
                      Seconds(x.metadata.downloaded_at) > Seconds(e.metadata.downloaded_at)})
         < keep_latest}

\* C7: within each distro group, prune(K) over entries with distinct
\* download timestamps keeps exactly the min(N, K) entries with the largest
\* timestamps and removes the others, when every removal succeeds; the
\* entries of other distros do not count.
C7_KeepsMostRecent ==
    [][(ret'.op = "prune" /\ ret'.out.status = "Ok" /\ ret'.failed = {}
          /\ DistinctTimes(Listed(fs)))
         => Listed(fs') = MostRecent(Listed(fs), ret'.keep_latest)]_vars

RECURSIVE SumSizes(_)
SumSizes(entries) ==
    IF entries = {} THEN 0
    ELSE LET e == CHOOSE x \in entries : TRUE IN
         e.metadata.size + SumSizes(entries \ {e})

\* The listed entries whose directory a step has removed.
Removed(f, g) == {e \in Listed(f) : ~IsDir(g, Parent(e.archive_path))}

\* A prune(keep_latest) of filesystem f selects e, whatever the order of the
\* listing when no entry of its group has its timestamp.
SelectedAgain(f, keep_latest, e) ==
    LET sets == PruneVictims(f, CacheRoot, keep_latest)
        tie == \E x \in GroupOf(Listed(f), e) :
                 x # e /\ x.metadata.downloaded_at = e.metadata.downloaded_at IN
    /\ e \in Listed(f)
    /\ \E V \in sets : e \in Range(V)
    /\ ~tie => \A V \in sets : e \in Range(V)

\* The removal of an entry failed without deleting any of its files.
Untouched(f, g, e) ==
    LET dir == Parent(e.archive_path) IN FilesUnder(g, dir) = FilesUnder(f, dir)

\* C8 (as stated): prune returns the sum of the metadata sizes of exactly
\* the entries whose removal succeeded; a failed removal adds nothing and
\* leaves the entry in the cache, where a later prune selects it again.
C8_FailedRemovalKeepsEntry ==
    [][(ret'.op = "prune" /\ ret'.out.status = "Ok") =>
         /\ ret'.out.freed = SumSizes(Removed(fs, fs'))
         /\ \A e \in ret'.failed :
              /\ e \notin Removed(fs, fs')
              /\ SelectedAgain(fs', ret'.keep_latest, e)]_vars

\* C8: prune returns the sum of the metadata sizes of exactly the entries
\* whose removal succeeded; a failed removal is no error and adds nothing,
\* and when it deleted none of the entry's files the entry stays in the
\* cache, where a later prune selects it again.
C8_FreedIsSumOfRemoved ==
    [][(ret'.op = "prune" /\ ret'.out.status = "Ok") =>
         /\ ret'.out.freed = SumSizes(Removed(fs, fs'))
         /\ \A e \in ret'.failed :
              /\ e \notin Removed(fs, fs')
              /\ Untouched(fs, fs', e) => SelectedAgain(fs', ret'.keep_latest, e)]_vars

\* A prune removed an entry of positive size and failed to remove another,
\* which is still listed.
C8_Witness ==
    /\ ret.op = "prune"
    /\ ret.out.status = "Ok"
    /\ ret.out.freed > 0
    /\ ret.failed # {}
    /\ ret.failed \subseteq Listed(fs)

----------------------------------------------------------------------------
(* The two checksum comparisons of download.rs applied to downloaded         *)
(* payloads and expected hashes of every kind.                               *)

HashAlgorithms == {"Sha256", "Sha512"}

\* The expected hashes supplied: the digests of the payloads, and one that is
\* the digest of none.
ExpectedHashes ==
    {Sha256Hex(x) : x \in Payloads} \cup {Sha512Hex(x) : x \in Payloads} \cup {DeadBeef}

\* What download_url returns: the hash field is the SHA-256 of the payload.
Downloaded ==
    {[data |-> d, sha256 |-> Sha256Hex(d), filename |-> n] :
       d \in Payloads, n \in FileNames}

\* What the index may resolve to.
ResolvedImages ==
    {[url |-> ImageUrl(Mirror, <<"images", n>>), sha256 |-> h, size |-> k, filename |-> n] :
       h \in ExpectedHashes, k \in {0, MaxLen}, n \in {"rootfs.tar.xz"}}

\* verify_hash(expected, &result, algorithm), as download_with_verification
\* calls it with the hash parsed from a checksum file.
VerifyHashOp(expected, result, algorithm) ==
    /\ ret' = [op |-> "verify_hash", expected |-> expected, result |-> result,
               algorithm |-> algorithm, out |-> VerifyHash(expected, result, algorithm)]
    /\ UNCHANGED <<fs, now, calls>>

\* The comparison of download_from_lxc, on a payload that has arrived.
LxcVerifyOp(resolved, data) ==
    /\ ret' = [op |-> "download_from_lxc", resolved |-> resolved, data |-> data,
               out |-> LxcVerify(resolved, data)]
    /\ UNCHANGED <<fs, now, calls>>

NextVerify ==
    \/ \E expected \in ExpectedHashes, result \in Downloaded, algorithm \in HashAlgorithms :
         VerifyHashOp(expected, result, algorithm)
    \/ \E resolved \in ResolvedImages, data \in Payloads : LxcVerifyOp(resolved, data)

SpecVerify == Init /\ [][NextVerify]_vars

\* The digest of a payload under an algorithm, computed from the payload.
Computed(data, algorithm) ==
    IF algorithm = "Sha256" THEN Sha256Hex(data) ELSE Sha512Hex(data)

\* The error both comparisons must report.
Mismatch(expected, actual) ==
    [status |-> "Err", err |-> "ChecksumMismatch", expected |-> expected, actual |-> actual]

\* C6: when the digest computed from a downloaded payload differs from the
\* expected hash supplied for it, by the index or by a checksum file, the
\* operation fails with ChecksumMismatch carrying the supplied hash as
\* expected and the computed digest as actual, and returns no result; when
\* they are equal it succeeds.
C6_MismatchReported ==
    /\ ret.op = "verify_hash" =>
         LET computed == Computed(ret.result.data, ret.algorithm) IN
         IF computed # ret.expected
         THEN ret.out = Mismatch(ret.expected, computed)
         ELSE ret.out = [status |-> "Ok"]
    /\ ret.op = "download_from_lxc" =>
         LET computed == Computed(ret.data, "Sha256") IN
         IF computed # ret.resolved.sha256
         THEN ret.out = Mismatch(ret.resolved.sha256, computed)
         ELSE /\ ret.out.status = "Ok"
              /\ ret.out.result.data = ret.data
              /\ ret.out.result.sha256 = computed

\* A SHA-512 comparison failed against the SHA-256 of the same payload.
C6_Witness ==
    /\ ret.op = "verify_hash"
    /\ ret.algorithm = "Sha512"
    /\ ret.expected = Sha256Hex(ret.result.data)
    /\ ret.out.status = "Err"
    /\ ret.out.actual = Sha512Hex(ret.result.data)

----------------------------------------------------------------------------
(* Two callers, one ensure call each for the same key, the network serving   *)
(* the same archive to both.  Every call of the filesystem and every await   *)
(* is a step of its own; std::fs::write is two: the file is created or       *)
(* truncated, then its content is written.                                   *)

ConcRequest == <<"Alpine", <<"1">>, "Aarch64">>

\* The archive the mirror serves for ConcRequest.
ServedPayload == <<0>>

\* A file that has been created or truncated and not written yet.
EmptyFile == Blob(<<>>)

\* The call of process p ends with outcome out.
ConcReturn(p, out) ==
    calls' = [calls EXCEPT ![p] = [pc |-> "done", downloaded |-> calls[p].downloaded,
                                   out |-> out]]

\* The call moves on to its next step.
ConcGoto(p, pc) == calls' = [calls EXCEPT ![p].pc = pc]

\* The lookup missed: download_from_lxc begins.
ConcMiss(p) == calls' = [calls EXCEPT ![p].pc = "fetch_index", ![p].downloaded = TRUE]

\* ensure is called: the entry directory is computed.
ConcStart(p) ==
    /\ calls[p].pc = "idle"
    /\ calls' = [calls EXCEPT ![p] =
                   [pc |-> "meta_exists", downloaded |-> FALSE,
                    entry_dir |-> EntryDir(ConcRequest[1], ConcRequest[2], ConcRequest[3])]]
    /\ UNCHANGED <<fs, now, ret>>

\* load_entry: metadata_path.exists().
ConcMetaExists(p) ==
    /\ calls[p].pc = "meta_exists"
    /\ IF Exists(fs, Append(calls[p].entry_dir, MetadataFile))
       THEN ConcGoto(p, "read_meta")
       ELSE ConcMiss(p)
    /\ UNCHANGED <<fs, now, ret>>

\* load_entry: read_to_string and serde_json::from_str.
ConcReadMeta(p) ==
    /\ calls[p].pc = "read_meta"
    /\ LET metadata_path == Append(calls[p].entry_dir, MetadataFile) IN
       IF ~IsFile(fs, metadata_path) THEN ConcReturn(p, [status |-> "Err", err |-> "Io"])
       ELSE IF ReadMetadata(fs.files[metadata_path]).status = "Err"
       THEN ConcReturn(p, ReadMetadata(fs.files[metadata_path]))
       ELSE calls' = [calls EXCEPT ![p] =
                        [pc |-> "archive_exists", downloaded |-> FALSE,
                         entry_dir |-> calls[p].entry_dir,
                         metadata |-> ReadMetadata(fs.files[metadata_path]).metadata]]
    /\ UNCHANGED <<fs, now, ret>>

\* load_entry: archive_path.exists().
ConcArchiveExists(p) ==
    /\ calls[p].pc = "archive_exists"
    /\ IF Exists(fs, PathJoinName(calls[p].entry_dir, calls[p].metadata.filename))
       THEN ConcGoto(p, "verify")
       ELSE ConcMiss(p)
    /\ UNCHANGED <<fs, now, ret>>

\* fetch_index at send().await: the headers of the answer arrive.
ConcFetchIndexSend(p) ==
    /\ calls[p].pc = "fetch_index"
    /\ ConcGoto(p, "index_body")
    /\ UNCHANGED <<fs, now, ret>>

\* fetch_index at response.json().await: the index arrives and is resolved;
\* download_url sends the GET of the archive and waits for the answer.
ConcFetchIndex(p, pick) ==
    /\ calls[p].pc = "index_body"
    /\ LET r == ResolveFromIndex(LxcIndex, Mirror, ConcRequest[1], ConcRequest[2],
                                 ConcRequest[3], pick) IN
       calls' = [calls EXCEPT ![p] =
                   [pc |-> "download", downloaded |-> TRUE,
                    entry_dir |-> calls[p].entry_dir, resolved |-> r.resolved]]
    /\ UNCHANGED <<fs, now, ret>>

\* download_url at send().await: the headers of the answer arrive, the
\* stream of the body begins with nothing received.
ConcDownloadResponse(p) ==
    /\ calls[p].pc = "download"
    /\ calls' = [calls EXCEPT ![p] =
                   [pc |-> "stream", downloaded |-> TRUE,
                    entry_dir |-> calls[p].entry_dir, resolved |-> calls[p].resolved,
                    data |-> <<>>]]
    /\ UNCHANGED <<fs, now, ret>>

\* download_url at stream.next().await: the body arrives, in one chunk.
ConcDownloadChunk(p) ==
    /\ calls[p].pc = "stream"
    /\ calls[p].data = <<>>
    /\ calls' = [calls EXCEPT ![p].data = ServedPayload]
    /\ UNCHANGED <<fs, now, ret>>

\* download_url at stream.next().await: the stream ends; the digest of the
\* body is compared with the index, and on a match ensure begins
\* create_dir_all(&entry_dir) at the entry directory.
ConcDownload(p) ==
    /\ calls[p].pc = "stream"
    /\ calls[p].data = ServedPayload
    /\ LET v == LxcVerify(calls[p].resolved, calls[p].data) IN
       IF v.status = "Err" THEN ConcReturn(p, v)
       ELSE calls' = [calls EXCEPT ![p] =
                        [pc |-> "mkdir", downloaded |-> TRUE,
                         entry_dir |-> calls[p].entry_dir, result |-> v.result,
                         depth |-> Len(calls[p].entry_dir), up |-> FALSE]]
    /\ UNCHANGED <<fs, now, ret>>

\* The path create_dir_all of call p is at: the first depth components of
\* the entry directory.
MkdirPath(p) == SubSeq(calls[p].entry_dir, 1, calls[p].depth)

\* create_dir_all has the directory at MkdirPath(p): it returns to the call
\* that makes the next component, or to ensure when it was the last.
ConcMkdirDone(p) ==
    IF calls[p].depth = Len(calls[p].entry_dir)
    THEN calls' = [calls EXCEPT ![p].pc = "open_archive", ![p].up = FALSE]
    ELSE calls' = [calls EXCEPT ![p].pc = "mkdir", ![p].depth = @ + 1, ![p].up = TRUE]

\* create_dir_all: one mkdir.  The first mkdir of a path (up is FALSE) that
\* finds no parent goes on with create_dir_all of the parent, and the mkdir of
\* the path is tried again after it (up is TRUE); every other refusal is
\* followed by is_dir.
ConcMkdir(p) ==
    /\ calls[p].pc = "mkdir"
    /\ LET path == MkdirPath(p) IN
       IF Exists(fs, path)
       THEN ConcGoto(p, "mkdir_is_dir") /\ fs' = fs
       ELSE IF IsDir(fs, Parent(path))
       THEN ConcMkdirDone(p) /\ fs' = [fs EXCEPT !.dirs = @ \cup {path}]
       ELSE IF ~calls[p].up /\ ~Exists(fs, Parent(path))
       THEN calls' = [calls EXCEPT ![p].depth = @ - 1] /\ fs' = fs
       ELSE ConcGoto(p, "mkdir_is_dir") /\ fs' = fs
    /\ UNCHANGED <<now, ret>>

\* create_dir_all: path.is_dir() after a refused mkdir.  A directory that was
\* there at the mkdir and has been removed since makes ensure fail.
ConcMkdirIsDir(p) ==
    /\ calls[p].pc = "mkdir_is_dir"
    /\ IF IsDir(fs, MkdirPath(p)) THEN ConcMkdirDone(p)
       ELSE ConcReturn(p, [status |-> "Err", err |-> "Io"])
    /\ UNCHANGED <<fs, now, ret>>

\* store: the archive file is created or truncated.
ConcOpenArchive(p) ==
    /\ calls[p].pc = "open_archive"
    /\ LET w == WriteNamed(fs, calls[p].entry_dir, calls[p].result.filename, EmptyFile) IN
       IF w.ok THEN ConcGoto(p, "write_archive") /\ fs' = w.fs
       ELSE ConcReturn(p, [status |-> "Err", err |-> "Io"]) /\ fs' = fs
    /\ UNCHANGED <<now, ret>>

\* store: the payload is written to the archive file; the metadata is built.
ConcWriteArchive(p) ==
    /\ calls[p].pc = "write_archive"
    /\ LET archive_path == PathJoinName(calls[p].entry_dir, calls[p].result.filename) IN
       /\ fs' = [fs EXCEPT !.files =
                   [q \in DOMAIN @ \cup {archive_path} |->
                      IF q = archive_path THEN Blob(calls[p].result.data) ELSE @[q]]]
       /\ calls' = [calls EXCEPT ![p] =
                      [pc |-> "open_meta", downloaded |-> TRUE,
                       entry_dir |-> calls[p].entry_dir, archive_path |-> archive_path,
                       metadata |-> StoreMetadata(calls[p].entry_dir, calls[p].result, now)]]
    /\ UNCHANGED <<now, ret>>

\* store: the metadata file is created or truncated.
ConcOpenMeta(p) ==
    /\ calls[p].pc = "open_meta"
    /\ LET w == WriteFile(fs, Append(calls[p].entry_dir, MetadataFile), EmptyFile) IN
       IF w.ok THEN ConcGoto(p, "write_meta") /\ fs' = w.fs
       ELSE ConcReturn(p, [status |-> "Err", err |-> "Io"]) /\ fs' = fs
    /\ UNCHANGED <<now, ret>>

\* store: the metadata text is written; ensure returns the entry.
ConcWriteMeta(p) ==
    /\ calls[p].pc = "write_meta"
    /\ LET metadata_path == Append(calls[p].entry_dir, MetadataFile) IN
       fs' = [fs EXCEPT !.files =
                [q \in DOMAIN @ \cup {metadata_path} |->
                   IF q = metadata_path THEN JsonText(calls[p].metadata) ELSE @[q]]]
    /\ ConcReturn(p, [status |-> "Ok",
                      cached |-> [archive_path |-> calls[p].archive_path,
                                  metadata |-> calls[p].metadata]])
    /\ UNCHANGED <<now, ret>>

----------------------------------------------------------------------------
(* LxcClient::resolve_from_index applied to indexes of every shape, as the   *)
(* tests of lxc.rs apply it to mock_index.                                   *)

\* The build timestamps of an index, as strings of digits.
BuildKeys == {<<1, 7>>, <<1, 8>>, <<9>>}

\* The directory of a build in the paths of its items.
BuildName(build) ==
    CASE build = <<1, 7>> -> "17"
      [] build = <<1, 8>> -> "18"
      [] OTHER -> "9"

\* What the items of the builds of an index look like: the rootfs by type,
\* with a second file, absent, found by its path only, with its hash in
\* capitals, or twice.
ItemShapes == {"root", "both", "lxd", "path", "upper", "two", "pref", "old", "cloud"}

\* The hash an index gives for the rootfs of a build of a variant.
ItemHash(variant, build) ==
    <<IF variant = "default" THEN "a" ELSE "c", HexDigits[(Seconds(build) % 16) + 1]>>

\* str::to_uppercase and str::to_lowercase on the characters of a hash.
LowerLetters == <<"a", "b", "c", "d", "e", "f", "g", "h", "i", "j", "k", "l", "m",
                  "n", "o", "p", "q", "r", "s", "t", "u", "v", "w", "x", "y", "z">>

UpperLetters == <<"A", "B", "C", "D", "E", "F", "G", "H", "I", "J", "K", "L", "M",
                  "N", "O", "P", "Q", "R", "S", "T", "U", "V", "W", "X", "Y", "Z">>

UpperChar(c) ==
    IF \E i \in DOMAIN LowerLetters : LowerLetters[i] = c
    THEN UpperLetters[CHOOSE i \in DOMAIN LowerLetters : LowerLetters[i] = c]
    ELSE c

LowerChar(c) ==
    IF \E i \in DOMAIN UpperLetters : UpperLetters[i] = c
    THEN LowerLetters[CHOOSE i \in DOMAIN UpperLetters : UpperLetters[i] = c]
    ELSE c

ToUpper(str) == [i \in DOMAIN str |-> UpperChar(str[i])]

ToLower(str) == [i \in DOMAIN str |-> LowerChar(str[i])]

\* The item of a file of a build.
FileItem(ftype, sha256, variant, build, name) ==
    [ftype |-> ftype, sha256 |-> sha256, size |-> Seconds(build),
     path |-> <<"images", variant, BuildName(build), name>>]

\* The items of a build of a variant, in an index of a shape.
ItemsOf(shape, variant, build) ==
    LET hash == ItemHash(variant, build)
        root == "root.tar.xz" :> FileItem("root.tar.xz", hash, variant, build, "rootfs.tar.xz")
        lxd == "lxd.tar.xz" :> FileItem("lxd.tar.xz", <<"1", "1">>, variant, build, "lxd.tar.xz") IN
    CASE shape = "root" -> root
      [] shape = "both" -> root @@ lxd
      [] shape = "lxd" -> lxd
      [] shape = "path" ->
           lxd @@ "disk" :> FileItem("disk", hash, variant, build, "my-rootfs.tar.xz")
      [] shape = "upper" ->
           "root.tar.xz" :> FileItem("root.tar.xz", ToUpper(hash), variant, build, "rootfs.tar.xz")
      [] shape = "two" ->
           root @@ "root2" :> FileItem("root.tar.xz", <<"2", "2">>, variant, build, "other.tar.xz")
      [] shape = "pref" ->
           "root2" :> FileItem("root.tar.xz", <<"2", "2">>, variant, build, "other.tar.xz")
             @@ "disk" :> FileItem("disk", hash, variant, build, "my-rootfs.tar.xz")
      [] shape = "old" -> IF build = <<9>> THEN lxd ELSE root
      [] OTHER -> IF variant = "default" THEN lxd ELSE root

\* A product of a variant with the given builds.
ProductOf(shape, variant, builds) ==
    [versions |-> [b \in builds |-> [items |-> ItemsOf(shape, variant, b)]]]

\* Which of the two variants of alpine 1 on arm64 an index has, and with
\* which builds.
Variants ==
    {v \in [present : BOOLEAN, builds : SUBSET BuildKeys] : ~v.present => v.builds = {}}

\* An index: ubuntu noble always, alpine 1 as def and cloud say.
IndexOf(shape, def, cloud) ==
    LET key(variant) == <<"alpine", <<"1">>, "arm64", variant>>
        keys == {<<"ubuntu", <<"noble">>, "arm64", "default">>}
                  \cup (IF def.present THEN {key("default")} ELSE {})
                  \cup (IF cloud.present THEN {key("cloud")} ELSE {}) IN
    [products |->
       [k \in keys |->
          IF k = key("default") THEN ProductOf(shape, "default", def.builds)
          ELSE IF k = key("cloud") THEN ProductOf(shape, "cloud", cloud.builds)
          ELSE ProductOf(shape, "default", {<<1, 8>>})]]

Indexes == {IndexOf(shape, def, cloud) : shape \in ItemShapes, def \in Variants, cloud \in Variants}

ResolveRequests ==
    {<<"Alpine", <<"1">>, "Aarch64">>, <<"Ubuntu", <<"24.04">>, "Aarch64">>,
     <<"Alpine", <<"3">>, "Aarch64">>}

\* client.resolve_from_index(&index, distro, &version, arch).
ResolveOp(index, req, pick) ==
    /\ ret' = [op |-> "resolve", index |-> index, req |-> req,
               out |-> ResolveFromIndex(index, Mirror, req[1], req[2], req[3], pick)]
    /\ UNCHANGED <<fs, now, calls>>

NextResolve ==
    \E index \in Indexes, req \in ResolveRequests :
      \E pick \in ResolvePicks(index, req[1], req[2], req[3]) : ResolveOp(index, req, pick)

SpecResolve == Init /\ [][NextResolve]_vars

\* String a is lexicographically greater than string b.
LexGreater(a, b) ==
    \E i \in 1..Len(a) :
      /\ \A j \in 1..(i - 1) : j <= Len(b) /\ a[j] = b[j]
      /\ i > Len(b) \/ (i <= Len(b) /\ a[i] > b[i])

\* The key of the product of a request under a variant.
RequestKey(req, variant) ==
    <<LxcName(req[1]), LxcRelease(req[1], req[2]), ArchLxcName(req[3]), variant>>

\* The variant of the product a resolved image was taken from.
VariantOf(resolved) == resolved.url.path[2]

\* C11: within the matched product, resolve selects the build whose
\* timestamp key is lexicographically the greatest of the product's build
\* keys, and returns the URL, the hash and the size of a rootfs item of that
\* build.
C11_LatestBuild ==
    ret.op = "resolve" /\ ret.out.status = "Ok" =>
      LET product == ret.index.products[RequestKey(ret.req, VariantOf(ret.out.resolved))]
          builds == DOMAIN product.versions
          latest == CHOOSE b \in builds : \A o \in builds \ {b} : LexGreater(b, o)
          items == product.versions[latest].items IN
      /\ \E b \in builds : \A o \in builds \ {b} : LexGreater(b, o)
      /\ \E k \in DOMAIN items :
           /\ ret.out.resolved.url = ImageUrl(Mirror, items[k].path)
           /\ ret.out.resolved.sha256 = items[k].sha256
           /\ ret.out.resolved.size = items[k].size

\* A product with the builds "17", "18" and "9" resolved to build "9".
C11_Witness ==
    /\ ret.op = "resolve"
    /\ ret.out.status = "Ok"
    /\ DOMAIN ret.index.products[RequestKey(ret.req, VariantOf(ret.out.resolved))].versions
         = BuildKeys
    /\ ret.out.resolved.url.path[3] = "9"

\* C12: resolve uses the product of variant "default" whenever its key is in
\* the index, the product of variant "cloud" only when the "default" key is
\* absent, and fails with ProductNotFound exactly when neither key is there.
C12_DefaultBeforeCloud ==
    ret.op = "resolve" =>
      LET hasDefault == RequestKey(ret.req, "default") \in DOMAIN ret.index.products
          hasCloud == RequestKey(ret.req, "cloud") \in DOMAIN ret.index.products
          used == IF hasDefault THEN "default" ELSE "cloud" IN
      /\ (ret.out.status = "Err" /\ ret.out.err = "ProductNotFound")
           <=> (~hasDefault /\ ~hasCloud)
      /\ ret.out.status = "Ok" => VariantOf(ret.out.resolved) = used
      /\ (ret.out.status = "Err" /\ ret.out.err = "RootfsNotFound") =>
           ret.out.product_key = RequestKey(ret.req, used)

\* An index with both variants resolved to the "default" product.
C12_Witness ==
    /\ ret.op = "resolve"
    /\ RequestKey(ret.req, "default") \in DOMAIN ret.index.products
    /\ RequestKey(ret.req, "cloud") \in DOMAIN ret.index.products
    /\ ret.index.products[RequestKey(ret.req, "cloud")].versions # <<>>
    /\ ret.out.status = "Ok"
    /\ VariantOf(ret.out.resolved) = "default"

\* The product a call used: variant "default" when the index has it, else
\* variant "cloud"; <<>> when it has neither.
UsedProduct(call) ==
    IF RequestKey(call.req, "default") \in DOMAIN call.index.products
    THEN <<RequestKey(call.req, "default")>>
    ELSE IF RequestKey(call.req, "cloud") \in DOMAIN call.index.products
    THEN <<RequestKey(call.req, "cloud")>>
    ELSE <<>>

\* The resolved image is made of this item.
MadeOf(resolved, item) ==
    /\ resolved.url = ImageUrl(Mirror, item.path)
    /\ resolved.sha256 = item.sha256
    /\ resolved.size = item.size
    /\ resolved.filename = Last(item.path)

\* C21: within the latest build of the product, resolve returns an item of
\* type "root.tar.xz" when there is one, else an item whose path ends in
\* "rootfs.tar.xz", else it fails with RootfsNotFound, as it does for a
\* product without builds; no other variant and no older build is tried.
C21_RootfsItemOfLatestBuild ==
    ret.op = "resolve" /\ UsedProduct(ret) # <<>> =>
      LET key == UsedProduct(ret)[1]
          builds == DOMAIN ret.index.products[key].versions
          notFound == [status |-> "Err", err |-> "RootfsNotFound", product_key |-> key]
      IN  IF builds = {} THEN ret.out = notFound
          ELSE LET latest == CHOOSE b \in builds : \A o \in builds \ {b} : LexGreater(b, o)
                   items == ret.index.products[key].versions[latest].items
                   typed == {k \in DOMAIN items : items[k].ftype = "root.tar.xz"}
                   named == {k \in DOMAIN items :
                               Last(items[k].path) \in {"rootfs.tar.xz", "my-rootfs.tar.xz"}}
               IN  IF typed # {}
                   THEN ret.out.status = "Ok"
                          /\ \E k \in typed : MadeOf(ret.out.resolved, items[k])
                   ELSE IF named # {}
                   THEN ret.out.status = "Ok"
                          /\ \E k \in named : MadeOf(ret.out.resolved, items[k])
                   ELSE ret.out = notFound

\* The latest build of the "default" product has no rootfs and another of
\* its builds has one: RootfsNotFound.
C21_Witness ==
    /\ ret.op = "resolve"
    /\ ret.out.status = "Err"
    /\ ret.out.err = "RootfsNotFound"
    /\ ret.out.product_key = RequestKey(ret.req, "default")
    /\ \E b \in DOMAIN ret.index.products[ret.out.product_key].versions :
         RootfsItems(ret.index.products[ret.out.product_key].versions[b].items) # {}

\* C13: the expected hash of every resolved image is lowercase hexadecimal,
\* whatever the letter case of the sha256 string of the item in the index.
C13_HashLowercase ==
    ret.op = "resolve" /\ ret.out.status = "Ok" =>
      ret.out.resolved.sha256 = ToLower(ret.out.resolved.sha256)

----------------------------------------------------------------------------
\* Checksum files (provider/mod.rs).  A text is a sequence of characters.

ChecksumFormats == {"SingleEntry", "GnuCoreutils", "Bsd"}

\* char::is_whitespace, on the characters of the texts below.
IsWhitespace(c) == c \in {" ", "\t", "\n", "\r"}

\* str::find(char): the position of the first occurrence, 0 when none.
FindChar(str, c) ==
    IF \E i \in DOMAIN str : str[i] = c
    THEN CHOOSE i \in DOMAIN str : str[i] = c /\ \A j \in 1..(i - 1) : str[j] # c
    ELSE 0

\* The position of the first whitespace character, 0 when none.
FindWhitespace(str) ==
    IF \E i \in DOMAIN str : IsWhitespace(str[i])
    THEN CHOOSE i \in DOMAIN str :
           IsWhitespace(str[i]) /\ \A j \in 1..(i - 1) : ~IsWhitespace(str[j])
    ELSE 0

\* The text from position i to the end.
From(str, i) == SubSeq(str, i, Len(str))

\* str::lines: the text is cut after every "\n"; the "\n", and a "\r" right
\* before it, are not part of the line; no line follows a final "\n".
RECURSIVE SplitLines(_)
SplitLines(str) ==
    IF str = <<>> THEN <<>>
    ELSE LET nl == FindChar(str, "\n")
             raw == IF nl = 0 THEN str ELSE SubSeq(str, 1, nl - 1)
             line == IF nl # 0 /\ raw # <<>> /\ Last(raw) = "\r" THEN Front(raw) ELSE raw
         IN  IF nl = 0 THEN <<line>> ELSE <<line>> \o SplitLines(From(str, nl + 1))

\* str::trim_start
RECURSIVE TrimStart(_)
TrimStart(str) ==
    IF str # <<>> /\ IsWhitespace(Head(str)) THEN TrimStart(Tail(str)) ELSE str

\* str::trim_end
RECURSIVE TrimEnd(_)
TrimEnd(str) ==
    IF str # <<>> /\ IsWhitespace(Last(str)) THEN TrimEnd(Front(str)) ELSE str

\* str::trim
Trim(str) == TrimEnd(TrimStart(str))

\* str::trim_start_matches(char): every leading occurrence is removed.
RECURSIVE TrimStartMatches(_, _)
TrimStartMatches(str, c) ==
    IF str # <<>> /\ Head(str) = c THEN TrimStartMatches(Tail(str), c) ELSE str

\* str::split_whitespace().next(): the first run of non-whitespace
\* characters; <<>> stands for none (a token is never empty).
FirstToken(str) ==
    LET rest == TrimStart(str)
        ws == FindWhitespace(rest)
    IN  IF ws = 0 THEN rest ELSE SubSeq(rest, 1, ws - 1)

\* AfterLast, but the text after the first occurrence.
AfterLast_First(str, c) ==
    IF \E i \in DOMAIN str : str[i] = c
    THEN SubSeq(str, 1 + CHOOSE i \in DOMAIN str :
                           str[i] = c /\ \A j \in 1..(i - 1) : str[j] # c, Len(str))
    ELSE str

\* str::rsplit(char).next(): the text after the last occurrence of the
\* character, the whole text when there is none.
RECURSIVE AfterLast(_, _)
AfterLast(str, c) ==
    LET i == FindChar(str, c) IN
    IF i = 0 THEN str ELSE AfterLast(From(str, i + 1), c)

ChecksumParse == [status |-> "Err", err |-> "ChecksumParse"]

\* ParseSingleEntry, but the first token of the whole content is taken.
ParseSingleEntry_AnyLine(content) ==
    IF FirstToken(content) = <<>> THEN ChecksumParse
    ELSE [status |-> "Ok", hash |-> ToLower(FirstToken(content))]

\* The SingleEntry arm of parse_checksum_impl.
ParseSingleEntry(content) ==
    LET lines == SplitLines(content) IN
    IF lines = <<>> \/ FirstToken(lines[1]) = <<>> THEN ChecksumParse
    ELSE [status |-> "Ok", hash |-> ToLower(FirstToken(lines[1]))]

\* The filename a GNU line is compared by: the text after the first
\* whitespace character, without leading whitespace and asterisks.
GnuName(line) == TrimStartMatches(TrimStart(From(line, FindWhitespace(line) + 1)), "*")

\* The comparison of the filename of a GNU line with the requested one.
GnuMatches(line, filename) == GnuName(line) = filename

\* The GnuCoreutils arm of parse_checksum_impl.
RECURSIVE ParseGnu(_, _)
ParseGnu(lines, filename) ==
    IF lines = <<>> THEN ChecksumParse
    ELSE LET line == Head(lines)
             ws == FindWhitespace(line)
         IN  IF ws = 0 THEN ParseGnu(Tail(lines), filename)
             ELSE IF GnuMatches(line, filename)
                  THEN [status |-> "Ok", hash |-> ToLower(SubSeq(line, 1, ws - 1))]
                  ELSE ParseGnu(Tail(lines), filename)

SHA == <<"S", "H", "A">>

\* The Bsd arm of parse_checksum_impl.  The slice between the first "(" and
\* the first ")" panics when the ")" comes first.
RECURSIVE ParseBsd(_, _)
ParseBsd(lines, filename) ==
    IF lines = <<>> THEN ChecksumParse
    ELSE LET line == Head(lines)
             start == FindChar(line, "(")
             end == FindChar(line, ")")
         IN  IF ~IsPrefix(SHA, line) \/ start = 0 \/ end = 0
             THEN ParseBsd(Tail(lines), filename)
             ELSE IF end < start THEN [status |-> "Panic"]
             ELSE IF SubSeq(line, start + 1, end - 1) = filename
                  THEN [status |-> "Ok", hash |-> ToLower(Trim(AfterLast(line, "=")))]
                  ELSE ParseBsd(Tail(lines), filename)

\* TemplateProvider::parse_checksum
ParseChecksum(format, content, filename) ==
    CASE format = "SingleEntry" -> ParseSingleEntry(content)
      [] format = "GnuCoreutils" -> ParseGnu(SplitLines(content), filename)
      [] format = "Bsd" -> ParseBsd(SplitLines(content), filename)

----------------------------------------------------------------------------
\* SpecChecksum: parse_checksum on checksum files of up to MaxLines lines.

MaxLines == 2

FileNameTexts == {<<"f">>, <<"x", "f">>, <<"f", "x">>}

HashTexts == {<<"A", "1">>, <<"b", "2">>}

GnuSeparators == {<<" ", " ">>, <<" ", "*">>, <<" ", "*", "*">>, <<"\t">>, <<>>}

GnuLines == {h \o sep \o n : h \in HashTexts, sep \in GnuSeparators, n \in FileNameTexts}

BsdLines ==
    {pre \o <<" ", "(">> \o n \o <<")">> \o eq \o h :
       pre \in {SHA, <<"M", "D">>}, n \in {<<"f">>, <<"x", "f">>},
       eq \in {<<" ", "=", " ">>, <<" ">>}, h \in HashTexts}

OddLines == {<<>>, <<" ">>, <<" ", "A", "1">>, <<"#", " ", "f">>, SHA \o <<" ", "(", "f">>,
             SHA \o <<")", " ", "(", "f", ")", " ", "=", " ", "A", "1">>,
             SHA \o <<" ", "(", "f", ")", " ", "=", "x", "=", " ", "A", "1", " ">>}

ChecksumLines == GnuLines \cup BsdLines \cup OddLines

LineEndings == {<<"\n">>, <<"\r", "\n">>, <<>>}

\* The text of a checksum file: the lines, each but the last ended by "\n",
\* the last one by the given ending.
RECURSIVE FileText(_, _)
FileText(lines, ending) ==
    IF lines = <<>> THEN <<>>
    ELSE IF Len(lines) = 1 THEN lines[1] \o ending
    ELSE lines[1] \o <<"\n">> \o FileText(Tail(lines), ending)

\* The arguments of a call of parse_checksum.
InitChecksum ==
    /\ fs = EmptyFs
    /\ now = FirstTime
    /\ calls = [p \in Procs |-> IdleCall]
    /\ \E format \in ChecksumFormats, n \in 0..MaxLines, filename \in FileNameTexts :
         \E lines \in [1..n -> ChecksumLines], ending \in LineEndings :
           ret = [op |-> "args", format |-> format,
                  content |-> FileText(lines, ending), filename |-> filename]

\* The call of parse_checksum.
ParseChecksumOp ==
    /\ ret.op = "args"
    /\ ret' = [op |-> "parse_checksum", format |-> ret.format,
               content |-> ret.content, filename |-> ret.filename,
               out |-> ParseChecksum(ret.format, ret.content, ret.filename)]
    /\ UNCHANGED <<fs, now, calls>>

NextChecksum == ParseChecksumOp

SpecChecksum == InitChecksum /\ [][NextChecksum]_vars

\* The filename field of a line, as a set: empty when the line has none.
\* GNU: the text after the hash, the whitespace and the binary indicator.
\* BSD: the text between the parentheses of a line that begins with "SHA".
FilenameField(format, line) ==
    IF format = "GnuCoreutils"
    THEN IF FindWhitespace(line) = 0 THEN {} ELSE {GnuName(line)}
    ELSE {SubSeq(line, i + 1, j - 1) :
            <<i, j>> \in {p \in (DOMAIN line) \X (DOMAIN line) :
                            /\ IsPrefix(SHA, line)
                            /\ p[1] < p[2]
                            /\ line[p[1]] = "(" /\ line[p[2]] = ")"
                            /\ \A k \in 1..(p[1] - 1) : line[k] # "("
                            /\ \A k \in (p[1] + 1)..(p[2] - 1) : line[k] # ")"}}

\* The hash field of a line.
HashField(format, line) ==
    IF format = "GnuCoreutils"
    THEN ToLower(SubSeq(line, 1, FindWhitespace(line) - 1))
    ELSE ToLower(Trim(AfterLast(line, "=")))

\* The positions of the lines whose filename field is the requested name.
Qualifying(format, lines, filename) ==
    {i \in DOMAIN lines : filename \in FilenameField(format, lines[i])}

\* C14: under the GNU and the BSD grammar parse_checksum returns the hash of
\* the first line, in file order, whose filename field is exactly the
\* requested filename, and fails with ChecksumParse when no line qualifies.
C14_ExactFilename ==
    ret.op = "parse_checksum" /\ ret.format \in {"GnuCoreutils", "Bsd"} =>
      LET lines == SplitLines(ret.content)
          q == Qualifying(ret.format, lines, ret.filename)
      IN  IF q = {} THEN ret.out = ChecksumParse
          ELSE /\ ret.out.status = "Ok"
               /\ ret.out.hash =
                    HashField(ret.format, lines[CHOOSE i \in q : \A j \in q : i <= j])

\* The text is the other one without the whitespace at its two ends.
IsTrimOf(text, whole) ==
    /\ text = <<>> \/ (~IsWhitespace(Head(text)) /\ ~IsWhitespace(Last(text)))
    /\ \E i \in 0..(Len(whole) - Len(text)) :
         /\ SubSeq(whole, i + 1, i + Len(text)) = text
         /\ \A k \in (1..i) \cup ((i + Len(text) + 1)..Len(whole)) : IsWhitespace(whole[k])

\* The line begins with "SHA" and the text in its parentheses is the name.
BsdLineFor(line, filename) ==
    /\ Len(line) >= 3 /\ line[1] = "S" /\ line[2] = "H" /\ line[3] = "A"
    /\ filename \in FilenameField("Bsd", line)

\* C22: in the BSD grammar the value returned is taken from the first line
\* that begins with the name of a hash algorithm and whose parenthesized
\* filename is the target; it is what follows the last "=" of that line,
\* trimmed and in lowercase; lines that begin otherwise are skipped.
C22_BsdValue ==
    ret.op = "parse_checksum" /\ ret.format = "Bsd" /\ ret.out.status = "Ok" =>
      LET lines == SplitLines(ret.content)
          mine == {i \in DOMAIN lines : BsdLineFor(lines[i], ret.filename)}
      IN  /\ mine # {}
          /\ LET line == lines[CHOOSE i \in mine : \A j \in mine : i <= j]
                 eqs == {i \in DOMAIN line : line[i] = "="}
             IN  eqs # {} =>
                   LET last == CHOOSE i \in eqs : \A j \in eqs : j <= i IN
                   \E text \in {SubSeq(line, a, b) : a \in last + 1..Len(line) + 1,
                                                     b \in last..Len(line)} :
                     /\ IsTrimOf(text, SubSeq(line, last + 1, Len(line)))
                     /\ ret.out.hash = [i \in DOMAIN text |-> LowerChar(text[i])]

\* A line "MD (f) = ..." was skipped, and "SHA (f) =x= A1 " gave "a1".
C22_Witness ==
    /\ ret.op = "parse_checksum"
    /\ ret.format = "Bsd"
    /\ ret.filename = <<"f">>
    /\ LET lines == SplitLines(ret.content) IN
       /\ Len(lines) = 2
       /\ lines[1] = <<"M", "D", " ", "(", "f", ")", " ", "=", " ", "b", "2">>
       /\ lines[2] = SHA \o <<" ", "(", "f", ")", " ", "=", "x", "=", " ", "A", "1", " ">>
    /\ ret.out = [status |-> "Ok", hash |-> <<"a", "1">>]

\* The content up to its first "\n".
FirstLine(content) ==
    LET ends == {i \in DOMAIN content : content[i] = "\n"} IN
    IF ends = {} THEN content
    ELSE SubSeq(content, 1, (CHOOSE i \in ends : \A j \in ends : i <= j) - 1)

\* C23: in the single-entry grammar parse_checksum returns, in lowercase, the
\* first run of characters other than whitespace of the first line of the
\* content, whatever the target filename, and fails with ChecksumParse when
\* the content is empty or its first line has no such run.
C23_SingleEntry ==
    ret.op = "parse_checksum" /\ ret.format = "SingleEntry" =>
      LET line == FirstLine(ret.content)
          solid == {i \in DOMAIN line : ~IsWhitespace(line[i])}
      IN  IF solid = {} THEN ret.out = ChecksumParse
          ELSE LET start == CHOOSE i \in solid : \A j \in solid : i <= j
                   stop == CHOOSE i \in solid :
                             /\ \A j \in start..i : j \in solid
                             /\ (i + 1) \notin solid
                   token == SubSeq(line, start, stop)
               IN  ret.out = [status |-> "Ok",
                              hash |-> [i \in DOMAIN token |-> LowerChar(token[i])]]

\* " A1" on the first line gave "a1" for a file the content does not name.
C23_Witness ==
    /\ ret.op = "parse_checksum"
    /\ ret.format = "SingleEntry"
    /\ Len(SplitLines(ret.content)) = 2
    /\ SplitLines(ret.content)[1] = <<" ", "A", "1">>
    /\ SplitLines(ret.content)[2] = <<"b", "2", " ", "*", "f">>
    /\ ret.filename = <<"x", "f">>
    /\ ret.out = [status |-> "Ok", hash |-> <<"a", "1">>]

\* C29: under each of the three grammars parse_checksum ends, for every
\* content and every target filename, with a hash string or with
\* ChecksumParse; no line makes it crash.
C29_HashOrChecksumParse ==
    ret.op = "parse_checksum" => ret.out.status = "Ok" \/ ret.out = ChecksumParse

----------------------------------------------------------------------------
\* URL templates (provider/mod.rs).

VersionTransforms == {"Identity", "MajorMinor"}

\* A variant of resolve_major_minor that cuts at the first dot.
ResolveMajorMinor_FirstDot(transform, v) ==
    IF transform = "Identity" \/ FindChar(v, ".") = 0 THEN v
    ELSE SubSeq(v, 1, FindChar(v, ".") - 1)

\* TemplateProvider::resolve_major_minor
ResolveMajorMinor(transform, v) ==
    IF transform = "Identity" THEN v
    ELSE LET first_dot == FindChar(v, ".")
             second_dot == IF first_dot = 0 THEN 0
                           ELSE FindChar(From(v, first_dot + 1), ".")
         IN  IF first_dot # 0 /\ second_dot # 0
             THEN SubSeq(v, 1, first_dot + second_dot - 1)
             ELSE v

\* A URL and a template are sequences of pieces: a piece is a placeholder, a
\* run of literal text without braces, or one character of a version.  A
\* literal piece that holds a "/" ends with it.
Placeholders == {"{version}", "{arch}", "{codename}", "{major_minor}"}

\* str::replace: every occurrence of the placeholder, from left to right,
\* gives way to the replacement; the replacement is not searched again.
RECURSIVE Replace(_, _, _)
Replace(str, from, to) ==
    IF str = <<>> THEN <<>>
    ELSE (IF Head(str) = from THEN to ELSE <<Head(str)>>) \o Replace(Tail(str), from, to)

\* ArchNaming::resolve
ArchNamingResolve(naming, arch) ==
    IF naming = "Linux" THEN LinuxName(arch) ELSE DebName(arch)

\* ALPINE: no codename table is written as the empty table.
ALPINE ==
    [rootfs_url |-> <<"https://dl-cdn.alpinelinux.org/alpine/", "v", "{major_minor}",
                      "/releases/", "{arch}", "/", "alpine-minirootfs-", "{version}",
                      "-", "{arch}", ".tar.gz">>,
     checksum_url |-> <<"https://dl-cdn.alpinelinux.org/alpine/", "v", "{major_minor}",
                        "/releases/", "{arch}", "/", "alpine-minirootfs-", "{version}",
                        "-", "{arch}", ".tar.gz.sha256">>,
     checksum_format |-> "SingleEntry",
     hash_algorithm |-> "Sha256",
     arch_naming |-> "Linux",
     codename_table |-> <<>>,
     default_codename |-> <<>>,
     version_transform |-> "MajorMinor"]

UBUNTU ==
    [rootfs_url |-> <<"https://cloud-images.ubuntu.com/", "{codename}", "/current/",
                      "{codename}", "-server-cloudimg-", "{arch}", "-root.tar.xz">>,
     checksum_url |-> <<"https://cloud-images.ubuntu.com/", "{codename}",
                        "/current/", "SHA256SUMS">>,
     checksum_format |-> "GnuCoreutils",
     hash_algorithm |-> "Sha256",
     arch_naming |-> "Debian",
     codename_table |-> << <<<<"2", "0", ".", "0", "4">>, <<"focal">>>>,
                           <<<<"2", "2", ".", "0", "4">>, <<"jammy">>>>,
                           <<<<"2", "4", ".", "0", "4">>, <<"noble">>>>,
                           <<<<"2", "4", ".", "1", "0">>, <<"oracular">>>>,
                           <<<<"2", "5", ".", "0", "4">>, <<"plucky">>>> >>,
     default_codename |-> <<"noble">>,
     version_transform |-> "Identity"]

DEBIAN ==
    [rootfs_url |-> <<"https://cloud.debian.org/images/cloud/", "{codename}",
                      "/latest/", "debian-", "{version}", "-nocloud-", "{arch}",
                      ".tar.xz">>,
     checksum_url |-> <<"https://cloud.debian.org/images/cloud/", "{codename}",
                        "/latest/", "SHA512SUMS">>,
     checksum_format |-> "GnuCoreutils",
     hash_algorithm |-> "Sha512",
     arch_naming |-> "Debian",
     codename_table |-> << <<<<"1", "0">>, <<"buster">>>>,
                           <<<<"1", "1">>, <<"bullseye">>>>,
                           <<<<"1", "2">>, <<"bookworm">>>>,
                           <<<<"1", "3">>, <<"trixie">>>> >>,
     default_codename |-> <<"bookworm">>,
     version_transform |-> "Identity"]

FEDORA ==
    [rootfs_url |-> <<"https://download.fedoraproject.org/pub/fedora/linux/releases/",
                      "{version}", "/Cloud/", "{arch}", "/images/", "Fedora-Cloud-Base-",
                      "{version}", "-1.2.", "{arch}", ".raw.xz">>,
     checksum_url |-> <<"https://download.fedoraproject.org/pub/fedora/linux/releases/",
                        "{version}", "/Cloud/", "{arch}", "/images/", "Fedora-Cloud-",
                        "{version}", "-1.2-", "{arch}", "-CHECKSUM">>,
     checksum_format |-> "Bsd",
     hash_algorithm |-> "Sha256",
     arch_naming |-> "Linux",
     codename_table |-> <<>>,
     default_codename |-> <<>>,
     version_transform |-> "Identity"]

OfficialDistros == {"Alpine", "Ubuntu", "Debian", "Fedora"}

\* A variant of get_official_provider that serves every distribution.
GetOfficialProvider_Always(distro) ==
    CASE distro = "Alpine" -> <<ALPINE>>
      [] distro = "Debian" -> <<DEBIAN>>
      [] distro = "Fedora" -> <<FEDORA>>
      [] OTHER -> <<UBUNTU>>

\* get_official_provider: the specification in a sequence, <<>> for none.
GetOfficialProvider(distro) ==
    CASE distro = "Alpine" -> <<ALPINE>>
      [] distro = "Ubuntu" -> <<UBUNTU>>
      [] distro = "Debian" -> <<DEBIAN>>
      [] distro = "Fedora" -> <<FEDORA>>
      [] OTHER -> <<>>

\* TemplateProvider::resolve_codename: the first entry of the table whose
\* key is the version, else the default codename.
ResolveCodename(spec, version) ==
    LET table == spec.codename_table
        hits == {i \in DOMAIN table : table[i][1] = version}
    IN  IF hits = {} THEN spec.default_codename
        ELSE table[CHOOSE i \in hits : \A j \in hits : i <= j][2]

\* TemplateProvider::resolve_url
ResolveUrl(spec, template, version, arch) ==
    LET arch_str == <<ArchNamingResolve(spec.arch_naming, arch)>>
        codename == ResolveCodename(spec, version)
        major_minor == ResolveMajorMinor(spec.version_transform, version)
    IN  Replace(Replace(Replace(Replace(template,
          "{version}", version), "{arch}", arch_str), "{codename}", codename),
          "{major_minor}", major_minor)

\* TemplateProvider::rootfs_url
RootfsUrl(spec, version, arch) == ResolveUrl(spec, spec.rootfs_url, version, arch)

\* TemplateProvider::checksum_url (each of the four specifications has one).
ChecksumUrl(spec, version, arch) == ResolveUrl(spec, spec.checksum_url, version, arch)

\* The pieces that end with "/".
EndsInSlash(piece) ==
    piece \in {"/", "https://dl-cdn.alpinelinux.org/alpine/", "/releases/",
               "https://cloud-images.ubuntu.com/", "/current/",
               "https://cloud.debian.org/images/cloud/", "/latest/",
               "https://download.fedoraproject.org/pub/fedora/linux/releases/",
               "/Cloud/", "/images/"}

\* url.rsplit('/').next(): the text after the last "/".
RECURSIVE UrlFileName(_)
UrlFileName(url) ==
    IF url = <<>> \/ EndsInSlash(Last(url)) THEN <<>>
    ELSE UrlFileName(Front(url)) \o <<Last(url)>>

UnsupportedDistro(distro) ==
    [status |-> "Err", err |-> "UnsupportedDistro", name |-> AsStr(distro)]

\* What a GET may bring: the body, or a failure of the request.
HttpFailure == [status |-> "Err", err |-> "Http"]

\* The result download_distro builds from the body of the archive.
DistroResult(url, data) ==
    [data |-> data, sha256 |-> Sha256Hex(data), filename |-> UrlFileName(url)]

\* The digests actual_hash computes: the SHA-512 one, when it is asked for.
ActualHashWork(algorithm) ==
    IF algorithm = "Sha256" THEN <<>> ELSE <<"Sha512::digest">>

\* The digests the end of download_with_verification computes.
VerifyWork(spec, text, result) ==
    IF ParseChecksum(spec.checksum_format, text, result.filename).status # "Ok" THEN <<>>
    ELSE ActualHashWork(spec.hash_algorithm)

\* The end of download_with_verification, once the checksum file is there.
VerifyChecksum(spec, text, result) ==
    LET parsed == ParseChecksum(spec.checksum_format, text, result.filename) IN
    IF parsed.status # "Ok" THEN parsed
    ELSE LET verdict == VerifyHash(parsed.hash, result, spec.hash_algorithm) IN
         IF verdict.status # "Ok" THEN verdict
         ELSE [status |-> "Ok", result |-> result]

----------------------------------------------------------------------------
\* SpecMajorMinor: resolve_major_minor on versions of up to MaxVersionLen
\* characters.

MaxVersionLen == 5

VersionChars == {"3", "1", "."}

VersionTexts == UNION {[1..n -> VersionChars] : n \in 0..MaxVersionLen}

InitMajorMinor ==
    /\ fs = EmptyFs
    /\ now = FirstTime
    /\ calls = [p \in Procs |-> IdleCall]
    /\ \E transform \in VersionTransforms, v \in VersionTexts :
         ret = [op |-> "args", transform |-> transform, version |-> v]

\* The call of resolve_major_minor.
MajorMinorOp ==
    /\ ret.op = "args"
    /\ ret' = [op |-> "resolve_major_minor", transform |-> ret.transform,
               version |-> ret.version,
               out |-> ResolveMajorMinor(ret.transform, ret.version)]
    /\ UNCHANGED <<fs, now, calls>>

NextMajorMinor == MajorMinorOp

SpecMajorMinor == InitMajorMinor /\ [][NextMajorMinor]_vars

\* The positions of the dots of a text.
Dots(v) == {i \in DOMAIN v : v[i] = "."}

\* C15: with the major-minor transform the result is the version cut just
\* before its second dot when it has two dots or more, and the version
\* unchanged when it has fewer; with the identity transform it is the version
\* unchanged.
C15_MajorMinor ==
    ret.op = "resolve_major_minor" =>
      IF ret.transform = "MajorMinor" /\ Cardinality(Dots(ret.version)) >= 2
      THEN \E second \in Dots(ret.version) :
             /\ Cardinality({i \in Dots(ret.version) : i < second}) = 1
             /\ ret.out = SubSeq(ret.version, 1, second - 1)
      ELSE ret.out = ret.version

\* "3.1.3" was cut to "3.1".
C15_Witness ==
    /\ ret.op = "resolve_major_minor"
    /\ ret.transform = "MajorMinor"
    /\ ret.version = <<"3", ".", "1", ".", "3">>
    /\ ret.out = <<"3", ".", "1">>

----------------------------------------------------------------------------
\* SpecUrl: rootfs_url and checksum_url of the four built-in specifications.

UrlKinds == {"rootfs_url", "checksum_url"}

\* The versions of the tests, the keys of the codename tables, every text of
\* VersionTexts, and versions that hold the text of a placeholder.
UrlVersions ==
    VersionTexts
      \cup {<<"2", "4", ".", "0", "4">>, <<"2", "2", ".", "0", "4">>, <<"1", "2">>,
            <<"1", "3">>, <<"4", "1">>, <<"3", ".", "2", "1", ".", "3">>}
      \cup {<<p>> : p \in Placeholders}

InitUrl ==
    /\ fs = EmptyFs
    /\ now = FirstTime
    /\ calls = [p \in Procs |-> IdleCall]
    /\ \E distro \in OfficialDistros, kind \in UrlKinds, v \in UrlVersions,
          arch \in AllArchs :
         ret = [op |-> "args", distro |-> distro, kind |-> kind, version |-> v,
                arch |-> arch]

\* The call of rootfs_url or of checksum_url.
UrlOp ==
    /\ ret.op = "args"
    /\ LET spec == GetOfficialProvider(ret.distro)[1] IN
       ret' = [op |-> ret.kind, distro |-> ret.distro, version |-> ret.version,
               arch |-> ret.arch,
               out |-> IF ret.kind = "rootfs_url"
                       THEN RootfsUrl(spec, ret.version, ret.arch)
                       ELSE ChecksumUrl(spec, ret.version, ret.arch)]
    /\ UNCHANGED <<fs, now, calls>>

NextUrl == UrlOp

SpecUrl == InitUrl /\ [][NextUrl]_vars

\* The template a call resolved.
TemplateOf(call) ==
    IF call.op = "rootfs_url" THEN GetOfficialProvider(call.distro)[1].rootfs_url
    ELSE GetOfficialProvider(call.distro)[1].checksum_url

\* The string a placeholder stands for in a call: the version, the name of
\* the architecture, the codename of the exact table key or else the default
\* codename, the transformed version.
ValueOf(call, placeholder) ==
    LET spec == GetOfficialProvider(call.distro)[1] IN
    CASE placeholder = "{version}" -> call.version
      [] placeholder = "{arch}" -> <<ArchNamingResolve(spec.arch_naming, call.arch)>>
      [] placeholder = "{codename}" ->
           IF \E i \in DOMAIN spec.codename_table : spec.codename_table[i][1] = call.version
           THEN LET i == CHOOSE k \in DOMAIN spec.codename_table :
                           spec.codename_table[k][1] = call.version
                IN  spec.codename_table[i][2]
           ELSE spec.default_codename
      [] placeholder = "{major_minor}" ->
           ResolveMajorMinor(spec.version_transform, call.version)

\* The template with every placeholder replaced by its value, all at once.
RECURSIVE Filled(_, _)
Filled(call, template) ==
    IF template = <<>> THEN <<>>
    ELSE (IF Head(template) \in Placeholders THEN ValueOf(call, Head(template))
          ELSE <<Head(template)>>) \o Filled(call, Tail(template))

\* C16: for each built-in specification, version and architecture, every
\* placeholder of the rootfs and of the checksum URL template is replaced by a
\* non-empty string, {codename} by the table entry of the exact version or
\* else by the default codename, and the resolved URL holds no placeholder.
C16_SubstitutionTotal ==
    ret.op \in UrlKinds =>
      /\ \A i \in DOMAIN TemplateOf(ret) :
           TemplateOf(ret)[i] \in Placeholders => ValueOf(ret, TemplateOf(ret)[i]) # <<>>
      /\ ret.out = Filled(ret, TemplateOf(ret))
      /\ \A i \in DOMAIN ret.out : ret.out[i] \notin Placeholders

----------------------------------------------------------------------------
\* SpecTemplate: download_distro and download_with_verification, one network
\* request per step.  calls[Caller] holds the call under way and the requests
\* it has sent.

TemplateFns == {"download_distro", "download_with_verification"}

TemplateVersions == {<<"1", "2">>, <<"3", ".", "2", "1", ".", "3">>}

\* The checksum files the server may hold for an archive: one line in the
\* grammar of the specification for this archive or for another file, with
\* one of the two digests of the archive, in capitals or not, or the digest of
\* other bytes.
ChecksumBodies(spec, result) ==
    LET hashes == {Sha256Hex(result.data), Sha512Hex(result.data),
                   ToUpper(Sha512Hex(result.data)), DeadBeef}
        names == {result.filename, <<"x">> \o result.filename}
        line(h, n) == IF spec.checksum_format = "Bsd"
                      THEN SHA \o <<" ", "(">> \o n \o <<")", " ", "=", " ">> \o h
                      ELSE h \o <<" ", "*">> \o n
    IN  {FileText(<<line(h, n)>>, <<"\n">>) : h \in hashes, n \in names} \cup {<<>>}

\* download_distro or download_with_verification is called: without a
\* provider it fails at once.
TemplateStart(fn, distro, version, arch) ==
    /\ calls[Caller].pc = "idle"
    /\ IF GetOfficialProvider(distro) = <<>>
       THEN /\ ret' = [op |-> fn, distro |-> distro, log |-> <<>>, work |-> <<>>,
                       out |-> UnsupportedDistro(distro)]
            /\ UNCHANGED calls
       ELSE /\ calls' = [calls EXCEPT ![Caller] =
                           [pc |-> "get_rootfs", fn |-> fn, distro |-> distro,
                            version |-> version, arch |-> arch, log |-> <<>>]]
            /\ ret' = [op |-> "await"]
    /\ UNCHANGED <<fs, now>>

\* download_url of the archive is polled for the first time: the request is
\* out and not answered.
TemplateRootfsSend ==
    /\ calls[Caller].pc = "get_rootfs"
    /\ LET c == calls[Caller]
           url == RootfsUrl(GetOfficialProvider(c.distro)[1], c.version, c.arch)
       IN  calls' = [calls EXCEPT ![Caller] =
                       [c EXCEPT !.pc = "rootfs_sent",
                                 !.log = Append(c.log, <<"GET", url>>)]]
    /\ UNCHANGED <<fs, now, ret>>

\* The headers of the archive arrive with a good status: the stream of the
\* body begins with nothing received.
TemplateRootfsResponse ==
    /\ calls[Caller].pc = "rootfs_sent"
    /\ calls' = [calls EXCEPT ![Caller] =
                   [calls[Caller] EXCEPT !.pc = "rootfs_stream"] @@ [data |-> <<>>]]
    /\ UNCHANGED <<fs, now, ret>>

\* stream.next() yields a chunk of the archive.
TemplateRootfsChunk(chunk) ==
    /\ calls[Caller].pc = "rootfs_stream"
    /\ calls[Caller].data \o chunk \in Payloads
    /\ calls' = [calls EXCEPT ![Caller].data = @ \o chunk]
    /\ UNCHANGED <<fs, now, ret>>

\* download_url of the archive fails: the request fails or is answered with
\* an error status, or the stream yields an error.
TemplateRootfsFails ==
    /\ calls[Caller].pc \in {"rootfs_sent", "rootfs_stream"}
    /\ LET c == calls[Caller]
       IN  /\ ret' = [op |-> c.fn, distro |-> c.distro, log |-> c.log, work |-> <<>>,
                      out |-> HttpFailure]
           /\ calls' = [calls EXCEPT ![Caller] = IdleCall]
    /\ UNCHANGED <<fs, now>>

\* The stream of the archive ends, download_url returns its bytes:
\* download_distro returns, download_with_verification goes on to the checksum
\* file.
TemplateRootfsArrives ==
    /\ calls[Caller].pc = "rootfs_stream"
    /\ LET c == calls[Caller]
           url == RootfsUrl(GetOfficialProvider(c.distro)[1], c.version, c.arch)
           result == DistroResult(url, c.data)
       IN  IF c.fn = "download_distro"
           THEN /\ ret' = [op |-> c.fn, distro |-> c.distro, log |-> c.log,
                           work |-> <<"Sha256::digest">>,
                           out |-> [status |-> "Ok", result |-> result]]
                /\ calls' = [calls EXCEPT ![Caller] = IdleCall]
           ELSE /\ calls' = [calls EXCEPT ![Caller] =
                               [pc |-> "get_checksum", fn |-> c.fn, distro |-> c.distro,
                                version |-> c.version, arch |-> c.arch, log |-> c.log,
                                result |-> result]]
                /\ UNCHANGED ret
    /\ UNCHANGED <<fs, now>>

\* download_url of the checksum file is polled for the first time: the
\* request is out and not answered.
TemplateChecksumSend ==
    /\ calls[Caller].pc = "get_checksum"
    /\ LET c == calls[Caller]
           url == ChecksumUrl(GetOfficialProvider(c.distro)[1], c.version, c.arch)
       IN  calls' = [calls EXCEPT ![Caller] =
                       [c EXCEPT !.pc = "checksum_sent",
                                 !.log = Append(c.log, <<"GET", url>>)]]
    /\ UNCHANGED <<fs, now, ret>>

\* The headers of the checksum file arrive with a good status.
TemplateChecksumResponse ==
    /\ calls[Caller].pc = "checksum_sent"
    /\ calls' = [calls EXCEPT ![Caller] =
                   [calls[Caller] EXCEPT !.pc = "checksum_stream"] @@ [text |-> <<>>]]
    /\ UNCHANGED <<fs, now, ret>>

\* The text is the beginning of the other.
IsTextPrefix(text, other) ==
    Len(text) <= Len(other) /\ text = SubSeq(other, 1, Len(text))

\* stream.next() yields a chunk of the checksum file: what has arrived is
\* the beginning of a file the server may hold.
TemplateChecksumChunk(text) ==
    /\ calls[Caller].pc = "checksum_stream"
    /\ IsTextPrefix(calls[Caller].text, text)
    /\ calls' = [calls EXCEPT ![Caller].text = text]
    /\ UNCHANGED <<fs, now, ret>>

\* download_url of the checksum file fails.
TemplateChecksumFails ==
    /\ calls[Caller].pc \in {"checksum_sent", "checksum_stream"}
    /\ LET c == calls[Caller]
       IN  /\ ret' = [op |-> c.fn, distro |-> c.distro, log |-> c.log,
                      work |-> <<"Sha256::digest">>, out |-> HttpFailure]
           /\ calls' = [calls EXCEPT ![Caller] = IdleCall]
    /\ UNCHANGED <<fs, now>>

\* The stream of the checksum file ends; what arrived is parsed and the
\* archive is verified.
TemplateChecksumArrives ==
    /\ calls[Caller].pc = "checksum_stream"
    /\ LET c == calls[Caller]
           spec == GetOfficialProvider(c.distro)[1]
       IN  /\ ret' = [op |-> c.fn, distro |-> c.distro, log |-> c.log,
                      work |-> <<"Sha256::digest">> \o VerifyWork(spec, c.text, c.result),
                      text |-> c.text, result |-> c.result,
                      out |-> VerifyChecksum(spec, c.text, c.result)]
           /\ calls' = [calls EXCEPT ![Caller] = IdleCall]
    /\ UNCHANGED <<fs, now>>

\* The beginnings of the checksum files the server may hold for the archive
\* of the call under way.
ChecksumChunks ==
    IF calls[Caller].pc # "checksum_stream" THEN {}
    ELSE UNION {{SubSeq(body, 1, k) : k \in 0..Len(body)} :
                  body \in ChecksumBodies(GetOfficialProvider(calls[Caller].distro)[1],
                                          calls[Caller].result)}

NextTemplate ==
    \/ \E fn \in TemplateFns, distro \in AllDistros, version \in TemplateVersions,
          arch \in AllArchs : TemplateStart(fn, distro, version, arch)
    \/ TemplateRootfsSend
    \/ TemplateRootfsResponse
    \/ \E chunk \in Payloads : TemplateRootfsChunk(chunk)
    \/ TemplateRootfsFails
    \/ TemplateRootfsArrives
    \/ TemplateChecksumSend
    \/ TemplateChecksumResponse
    \/ \E text \in ChecksumChunks : TemplateChecksumChunk(text)
    \/ TemplateChecksumFails
    \/ TemplateChecksumArrives

SpecTemplate == Init /\ [][NextTemplate]_vars

\* The algorithm the specification of a distribution declares.
Declared(distro) == IF distro = "Debian" THEN "Sha512" ELSE "Sha256"

\* The digest of the bytes under an algorithm, in hexadecimal.
DigestOf(algorithm, data) ==
    IF algorithm = "Sha512" THEN Sha512Hex(data) ELSE Sha256Hex(data)

\* C24: the hash of a checksum file is compared with the digest of the
\* algorithm the specification declares, SHA-512 for Debian and SHA-256 for
\* Alpine, Ubuntu and Fedora, and the SHA-512 digest is computed only when the
\* declared algorithm is SHA-512.
C24_DeclaredAlgorithm ==
    /\ \A d \in OfficialDistros : GetOfficialProvider(d)[1].hash_algorithm = Declared(d)
    /\ ret.op \in TemplateFns =>
         \A i \in DOMAIN ret.work :
           ret.work[i] = "Sha512::digest" => Declared(ret.distro) = "Sha512"
    /\ ret.op = "download_with_verification" /\ Len(ret.log) = 2
         /\ ret.out.status # "Panic" /\ ret.out # HttpFailure /\ ret.out # ChecksumParse =>
         LET expected == ParseChecksum(GetOfficialProvider(ret.distro)[1].checksum_format,
                                       ret.text, ret.result.filename).hash
             actual == DigestOf(Declared(ret.distro), ret.result.data)
         IN  IF expected = actual
             THEN ret.out = [status |-> "Ok", result |-> ret.result]
             ELSE ret.out = [status |-> "Err", err |-> "ChecksumMismatch",
                             expected |-> expected, actual |-> actual]

\* A Debian archive was accepted on its SHA-512 digest.
C24_Witness ==
    /\ ret.op = "download_with_verification"
    /\ ret.distro = "Debian"
    /\ ret.out.status = "Ok"
    /\ ret.work = <<"Sha256::digest", "Sha512::digest">>
    /\ Sha512Hex(ret.result.data) # Sha256Hex(ret.result.data)

\* C17: the template path serves exactly Alpine, Ubuntu, Debian and Fedora:
\* for the other twelve distributions get_official_provider returns none and
\* download_distro and download_with_verification fail with UnsupportedDistro
\* without having sent a request; for the four they send one.
C17_OnlyFourOfficial ==
    /\ Cardinality(AllDistros \ OfficialDistros) = 12
    /\ \A d \in AllDistros : (GetOfficialProvider(d) # <<>>) <=> (d \in OfficialDistros)
    /\ calls[Caller].pc # "idle" => calls[Caller].distro \in OfficialDistros
    /\ ret.op \in TemplateFns =>
         IF ret.distro \in OfficialDistros
         THEN ret.log # <<>> /\ ~(ret.out.status = "Err" /\ ret.out.err = "UnsupportedDistro")
         ELSE ret.log = <<>> /\ ret.out = UnsupportedDistro(ret.distro)

\* Both entry points have refused Kali without a request.
C17_Witness ==
    /\ ret.op = "download_with_verification"
    /\ ret.distro = "Kali"
    /\ ret.log = <<>>
    /\ ret.out.err = "UnsupportedDistro"

----------------------------------------------------------------------------
\* SpecList: list_all on a cache root that may be missing, empty or filled.

\* The entry directories of the listed cache: the entry of the tests and one
\* of another distribution.
ListEntryDirs == CacheDirs \cup {EntryDir("Debian", <<"12">>, "X86_64")}

\* A directory two levels below the cache root, where no entry belongs.
ListVersionDir == Front(EntryDir("Debian", <<"12">>, "X86_64"))

\* The directories of the way to the entries.
ListDirs ==
    UNION {{SubSeq(dir, 1, k) : k \in Len(CacheRoot)..Len(dir)} : dir \in ListEntryDirs}

\* What is stored outside the entry of the tests: one payload, with its
\* digest or with a hash that is not its digest.
ListResults == {r \in TestResults : r.data = <<1>> /\ r.filename = "rootfs.tar.xz"}

\* No cache root yet.
InitList ==
    /\ fs = [dirs |-> {}, files |-> [p \in {} |-> Blob(<<>>)]]
    /\ now = FirstTime
    /\ calls = [p \in Procs |-> IdleCall]
    /\ ret = [op |-> "new"]

\* Something outside the program removes a directory and what it holds.
RemoveTree(dir) ==
    /\ dir \in fs.dirs
    /\ fs' = RemoveDirAll(fs, dir, FullRemoval(fs, dir)).fs
    /\ ret' = [op |-> "remove_dir_all", dir |-> dir]
    /\ UNCHANGED <<now, calls>>

\* list_all(cache_dir).
ListAllOp(cache_dir, first) ==
    /\ ret' = [op |-> "list_all", cache_dir |-> cache_dir,
               out |-> ListAll(fs, cache_dir, first)]
    /\ UNCHANGED <<fs, now, calls>>

NextList ==
    \/ \E dir \in ListDirs : MakeEntryDir(dir)
    \/ \E dir \in CacheDirs, result \in TestResults : StoreOp(dir, result, NoFault)
    \/ \E dir \in (ListEntryDirs \ CacheDirs) \cup {ListVersionDir}, result \in ListResults :
         StoreOp(dir, result, NoFault)
    \/ \E dir \in ListEntryDirs \ CacheDirs : TamperFile(Append(dir, MetadataFile), <<>>)
    \/ \E path \in DOMAIN fs.files : DeleteFile(path)
    \/ \E dir \in ListDirs : RemoveTree(dir)
    \/ \E first \in ListFirsts(fs, CacheRoot) : ListAllOp(CacheRoot, first)

SpecList == InitList /\ [][NextList]_vars

\* C18: listing a cache whose root directory does not exist, or exists and
\* holds nothing, returns the empty collection and no error.
C18_EmptyRootListsNothing ==
    ret.op = "list_all"
      /\ (~Exists(fs, ret.cache_dir)
            \/ (IsDir(fs, ret.cache_dir) /\ ReadDir(fs, ret.cache_dir) = {}))
      => ret.out = [status |-> "Ok", entries |-> {}]

\* A cache root that does not exist has been listed.
C18_Witness ==
    /\ ret.op = "list_all"
    /\ ~Exists(fs, ret.cache_dir)
    /\ ret.out.status = "Ok"

\* The directories at depth three below a cache root.
DepthThree(f, cache_dir) ==
    {d \in f.dirs : Len(d) = Len(cache_dir) + 3 /\ IsPrefix(cache_dir, d)}

\* The directories at depth three that hold a metadata file that decodes and
\* the archive file it names.
Complete(f, cache_dir) ==
    {d \in DepthThree(f, cache_dir) :
       /\ IsFile(f, Append(d, MetadataFile))
       /\ f.files[Append(d, MetadataFile)].kind = "json"
       /\ IsFile(f, PathJoinName(d, f.files[Append(d, MetadataFile)].meta.filename))}

\* The entry of a complete directory: its metadata and the path of its archive.
EntryAt(f, d) ==
    LET metadata == f.files[Append(d, MetadataFile)].meta IN
    [archive_path |-> PathJoinName(d, metadata.filename), metadata |-> metadata]

\* No metadata file at depth three is undecodable.
AllDecode(f, cache_dir) ==
    \A d \in DepthThree(f, cache_dir) :
       IsFile(f, Append(d, MetadataFile)) => f.files[Append(d, MetadataFile)].kind = "json"

\* C25: a listing changes nothing on disk, and when every metadata file
\* decodes it returns exactly the entries of the directories at depth three
\* below the cache root that hold a metadata file and the archive file it
\* names, whether or not the archive still matches the stored hash.
C25_ListsEveryEntry ==
    [][ret'.op = "list_all" =>
         /\ fs' = fs
         /\ (IsDir(fs, ret'.cache_dir) /\ AllDecode(fs, ret'.cache_dir)
               => ret'.out = [status |-> "Ok",
                              entries |-> {EntryAt(fs, d) : d \in Complete(fs, ret'.cache_dir)}])]_vars

\* A listing has returned two entries, one of them with an archive that does
\* not match its stored hash, while a directory at depth two holds a stored
\* pair that is not listed.
C25_Witness ==
    /\ ret.op = "list_all"
    /\ ret.out.status = "Ok"
    /\ Cardinality(ret.out.entries) = 2
    /\ \E e \in ret.out.entries :
          /\ VerifyIntegrity(fs, e).status = "Ok"
          /\ ~VerifyIntegrity(fs, e).val
    /\ IsFile(fs, Append(ListVersionDir, MetadataFile))

----------------------------------------------------------------------------
\* Extraction (distro-rootfs: extract.rs, cache.rs).  In this part a file
\* name is a text, and every component of a path is one.

\* str::ends_with
EndsWith(str, suffix) ==
    Len(str) >= Len(suffix)
      /\ SubSeq(str, Len(str) - Len(suffix) + 1, Len(str)) = suffix

TarGzSuffix == <<".", "t", "a", "r", ".", "g", "z">>

TgzSuffix == <<".", "t", "g", "z">>

TarXzSuffix == <<".", "t", "a", "r", ".", "x", "z">>

TxzSuffix == <<".", "t", "x", "z">>

\* Path::file_name, "" when the path has none.
FileNameOf(path) == IF path = <<>> THEN <<>> ELSE Last(path)

\* ExtractFormat::detect
Detect(path) ==
    LET name == FileNameOf(path) IN
    IF EndsWith(name, TarGzSuffix) \/ EndsWith(name, TgzSuffix)
    THEN [status |-> "Ok", format |-> "TarGz"]
    ELSE IF EndsWith(name, TarXzSuffix) \/ EndsWith(name, TxzSuffix)
    THEN [status |-> "Ok", format |-> "TarXz"]
    ELSE [status |-> "Err", err |-> "UnsupportedFormat", name |-> name]

\* The decoders and tar::Archive, reduced to this: bytes that begin with 0
\* are a gzip tar archive, bytes that begin with 1 an xz tar archive, and
\* either holds one member, "m", made of the bytes that follow.
Decodes(format, data) ==
    data # <<>> /\ data[1] = (IF format = "TarGz" THEN 0 ELSE 1)

MemberName == <<"m">>

\* extract_archive: the target directory is created, the archive opened and
\* unpacked into the target.  log lists the file system calls made.  File::open
\* fails on a path that is not there and opens a directory as it opens a
\* file: the first read of the decoder, inside unpack, is what fails on a
\* directory.
ExtractArchive(f, archive, target, format) ==
    LET mk == CreateDirAll(f, target) IN
    IF ~mk.ok
    THEN [ret |-> [status |-> "Err", err |-> "Io"], fs |-> f,
          log |-> <<<<"create_dir_all", target>>>>]
    ELSE IF ~Exists(mk.fs, archive)
    THEN [ret |-> [status |-> "Err", err |-> "Io"], fs |-> mk.fs,
          log |-> <<<<"create_dir_all", target>>, <<"open", archive>>>>]
    ELSE IF ~IsFile(mk.fs, archive)
    THEN [ret |-> [status |-> "Err", err |-> "Io"], fs |-> mk.fs,
          log |-> <<<<"create_dir_all", target>>, <<"open", archive>>,
                    <<"unpack", target>>>>]
    ELSE LET data == mk.fs.files[archive].data
             w == WriteFile(mk.fs, Append(target, MemberName), Blob(Tail(data)))
             log == <<<<"create_dir_all", target>>, <<"open", archive>>,
                      <<"unpack", target>>>>
         IN  IF ~Decodes(format, data) \/ ~w.ok
             THEN [ret |-> [status |-> "Err", err |-> "Io"], fs |-> mk.fs, log |-> log]
             ELSE [ret |-> [status |-> "Ok", format |-> format], fs |-> w.fs, log |-> log]

\* A variant of extract_to that prepares the target before it looks at the
\* name of the archive.
ExtractTo_TargetFirst(f, archive_path, target) ==
    LET format == Detect(archive_path) IN
    IF format.status = "Err"
    THEN [ret |-> format, fs |-> CreateDirAll(f, target).fs,
          log |-> <<<<"create_dir_all", target>>>>]
    ELSE ExtractArchive(f, archive_path, target, format.format)

\* CachedRootfs::extract_to
ExtractTo(f, archive_path, target) ==
    LET format == Detect(archive_path) IN
    IF format.status = "Err" THEN [ret |-> format, fs |-> f, log |-> <<>>]
    ELSE ExtractArchive(f, archive_path, target, format.format)

----------------------------------------------------------------------------
\* SpecExtract: extract_to on archives whose names are made of up to
\* MaxNameParts parts.

MaxNameParts == 3

NameParts == {<<"r">>, <<".", "t", "a", "r">>, <<".", "g", "z">>, <<".", "x", "z">>,
              TgzSuffix, TxzSuffix, <<".", "z", "i", "p">>, <<"t", "g", "z">>}

RECURSIVE Concat(_)
Concat(parts) == IF parts = <<>> THEN <<>> ELSE Head(parts) \o Concat(Tail(parts))

ArchiveNames == {Concat(parts) : parts \in UNION {[1..n -> NameParts] : n \in 1..MaxNameParts}}

ArchiveDir == <<<<"c">>>>

TargetDir == <<<<"o">>>>

\* What may stand at the path of the archive.
ArchiveKinds == {"file", "dir", "none"}

\* The archive directory holds the archive, a directory of its name, or
\* nothing; the target directory is there or not.
InitExtract ==
    /\ now = FirstTime
    /\ calls = [p \in Procs |-> IdleCall]
    /\ \E name \in ArchiveNames, data \in Payloads, stored \in ArchiveKinds,
          made \in BOOLEAN :
         /\ fs = [dirs |-> {ArchiveDir} \cup (IF made THEN {TargetDir} ELSE {})
                            \cup (IF stored = "dir" THEN {Append(ArchiveDir, name)}
                                  ELSE {}),
                  files |-> [p \in (IF stored = "file" THEN {Append(ArchiveDir, name)}
                                    ELSE {})
                               |-> Blob(data)]]
         /\ ret = [op |-> "args", archive_path |-> Append(ArchiveDir, name),
                   target |-> TargetDir]

\* The call of extract_to.
ExtractToOp ==
    /\ ret.op = "args"
    /\ LET r == ExtractTo(fs, ret.archive_path, ret.target) IN
       /\ fs' = r.fs
       /\ ret' = [op |-> "extract_to", archive_path |-> ret.archive_path,
                  target |-> ret.target, pre |-> fs, log |-> r.log, out |-> r.ret]
    /\ UNCHANGED <<now, calls>>

NextExtract == ExtractToOp

SpecExtract == InitExtract /\ [][NextExtract]_vars

\* The name is some text followed by the suffix.
HasSuffix(name, suffix) ==
    \E k \in 0..Len(name) : name = SubSeq(name, 1, k) \o suffix

\* The format a call went on with: the one of its outcome or, when it failed
\* after the detection, the one its name stands for.
UnpackedAs(format) ==
    /\ ret.log # <<>>
    /\ ret.out.status = "Ok" => ret.out.format = format
    /\ ret.out.status = "Ok" =>
         Decodes(format, ret.pre.files[ret.archive_path].data)
    /\ ret.out.status = "Err" => ret.out.err = "Io"

\* C19: extract_to unpacks a name that ends in .tar.gz or .tgz as gzip tar
\* and one that ends in .tar.xz or .txz as xz tar; with every other name it
\* fails with UnsupportedFormat, makes no file system call and leaves every
\* directory and file as it was.
C19_FormatByName ==
    ret.op = "extract_to" =>
      LET name == Last(ret.archive_path) IN
      IF HasSuffix(name, TarGzSuffix) \/ HasSuffix(name, TgzSuffix)
      THEN UnpackedAs("TarGz")
      ELSE IF HasSuffix(name, TarXzSuffix) \/ HasSuffix(name, TxzSuffix)
      THEN UnpackedAs("TarXz")
      ELSE /\ ret.out = [status |-> "Err", err |-> "UnsupportedFormat", name |-> name]
           /\ ret.log = <<>>
           /\ fs = ret.pre

\* "r.zip" was refused while the target directory did not exist.
C19_Witness ==
    /\ ret.op = "extract_to"
    /\ Last(ret.archive_path) = <<"r", ".", "z", "i", "p">>
    /\ IsFile(fs, ret.archive_path)
    /\ ~Exists(fs, ret.target)
    /\ ret.out.err = "UnsupportedFormat"

----------------------------------------------------------------------------
\* Distribution specs (distro: lib.rs).

\* The characters of the strings of this part.
Text(str) ==
    CASE str = "alma" -> <<"a", "l", "m", "a">>
      [] str = "alpine" -> <<"a", "l", "p", "i", "n", "e">>
      [] str = "arch" -> <<"a", "r", "c", "h">>
      [] str = "centos" -> <<"c", "e", "n", "t", "o", "s">>
      [] str = "debian" -> <<"d", "e", "b", "i", "a", "n">>
      [] str = "devuan" -> <<"d", "e", "v", "u", "a", "n">>
      [] str = "fedora" -> <<"f", "e", "d", "o", "r", "a">>
      [] str = "gentoo" -> <<"g", "e", "n", "t", "o", "o">>
      [] str = "kali" -> <<"k", "a", "l", "i">>
      [] str = "nixos" -> <<"n", "i", "x", "o", "s">>
      [] str = "openeuler" -> <<"o", "p", "e", "n", "e", "u", "l", "e", "r">>
      [] str = "opensuse" -> <<"o", "p", "e", "n", "s", "u", "s", "e">>
      [] str = "oracle" -> <<"o", "r", "a", "c", "l", "e">>
      [] str = "rocky" -> <<"r", "o", "c", "k", "y">>
      [] str = "ubuntu" -> <<"u", "b", "u", "n", "t", "u">>
      [] str = "void" -> <<"v", "o", "i", "d">>
      [] str = "almalinux" -> <<"a", "l", "m", "a", "l", "i", "n", "u", "x">>
      [] str = "archlinux" -> <<"a", "r", "c", "h", "l", "i", "n", "u", "x">>
      [] str = "rockylinux" -> <<"r", "o", "c", "k", "y", "l", "i", "n", "u", "x">>
      [] str = "voidlinux" -> <<"v", "o", "i", "d", "l", "i", "n", "u", "x">>
      [] str = "windows" -> <<"w", "i", "n", "d", "o", "w", "s">>
      [] str = "alpin" -> <<"a", "l", "p", "i", "n">>
      [] str = "alpinelinux" -> <<"a", "l", "p", "i", "n", "e", "l", "i", "n", "u", "x">>
      [] str = "linux" -> <<"l", "i", "n", "u", "x">>
      [] str = "12" -> <<"1", "2">>
      [] str = "24.03" -> <<"2", "4", ".", "0", "3">>
      [] str = "24.04" -> <<"2", "4", ".", "0", "4">>
      [] str = "25.05" -> <<"2", "5", ".", "0", "5">>
      [] str = "3.21" -> <<"3", ".", "2", "1">>
      [] str = "41" -> <<"4", "1">>
      [] str = "9" -> <<"9">>
      [] str = "9-Stream" -> <<"9", "-", "S", "t", "r", "e", "a", "m">>
      [] str = "current" -> <<"c", "u", "r", "r", "e", "n", "t">>
      [] str = "daedalus" -> <<"d", "a", "e", "d", "a", "l", "u", "s">>
      [] str = "tumbleweed" -> <<"t", "u", "m", "b", "l", "e", "w", "e", "e", "d">>

\* Distro::default_version
DefaultVersion(d) ==
    CASE d = "Alma" -> Text("9")
      [] d = "Alpine" -> Text("3.21")
      [] d = "Arch" -> Text("current")
      [] d = "CentOS" -> Text("9-Stream")
      [] d = "Debian" -> Text("12")
      [] d = "Devuan" -> Text("daedalus")
      [] d = "Fedora" -> Text("41")
      [] d = "Gentoo" -> Text("current")
      [] d = "Kali" -> Text("current")
      [] d = "NixOS" -> Text("25.05")
      [] d = "OpenEuler" -> Text("24.03")
      [] d = "OpenSuse" -> Text("tumbleweed")
      [] d = "Oracle" -> Text("9")
      [] d = "Rocky" -> Text("9")
      [] d = "Ubuntu" -> Text("24.04")
      [] d = "Void" -> Text("current")

\* The match of parse_distro_spec on a name: the distribution in a set, {}
\* for the arm that fails.
MatchDistro(name) ==
    CASE name = Text("alma") \/ name = Text("almalinux") -> {"Alma"}
      [] name = Text("alpine") -> {"Alpine"}
      [] name = Text("arch") \/ name = Text("archlinux") -> {"Arch"}
      [] name = Text("centos") -> {"CentOS"}
      [] name = Text("debian") -> {"Debian"}
      [] name = Text("devuan") -> {"Devuan"}
      [] name = Text("fedora") -> {"Fedora"}
      [] name = Text("gentoo") -> {"Gentoo"}
      [] name = Text("kali") -> {"Kali"}
      [] name = Text("nixos") -> {"NixOS"}
      [] name = Text("openeuler") -> {"OpenEuler"}
      [] name = Text("opensuse") -> {"OpenSuse"}
      [] name = Text("oracle") -> {"Oracle"}
      [] name = Text("rocky") \/ name = Text("rockylinux") -> {"Rocky"}
      [] name = Text("ubuntu") -> {"Ubuntu"}
      [] name = Text("void") \/ name = Text("voidlinux") -> {"Void"}
      [] OTHER -> {}

\* parse_distro_spec, but the name is matched as it is written.
ParseDistroSpec_CaseSensitive(spec) ==
    LET colon == FindChar(spec, ":")
        name == IF colon = 0 THEN spec ELSE SubSeq(spec, 1, colon - 1)
        distro == MatchDistro(name)
    IN  IF distro = {}
        THEN [status |-> "Err", err |-> "UnsupportedDistro", name |-> name]
        ELSE LET d == CHOOSE x \in distro : TRUE IN
             [status |-> "Ok", distro |-> d,
              version |-> IF colon = 0 THEN DefaultVersion(d) ELSE From(spec, colon + 1)]

\* parse_distro_spec
ParseDistroSpec(spec) ==
    LET colon == FindChar(spec, ":")
        name == IF colon = 0 THEN spec ELSE SubSeq(spec, 1, colon - 1)
        distro == MatchDistro(ToLower(name))
    IN  IF distro = {}
        THEN [status |-> "Err", err |-> "UnsupportedDistro", name |-> name]
        ELSE LET d == CHOOSE x \in distro : TRUE IN
             [status |-> "Ok", distro |-> d,
              version |-> IF colon = 0 THEN DefaultVersion(d) ELSE From(spec, colon + 1)]

----------------------------------------------------------------------------
\* SpecParse: parse_distro_spec on names in several letter cases, with and
\* without a version.

\* The canonical slugs, the index names, and names of no distribution.
SpecNames ==
    {Text(AsStr(d)) : d \in AllDistros} \cup {Text(LxcName(d)) : d \in AllDistros}
      \cup {Text("windows"), Text("alpin"), Text("alpinelinux"), Text("linux"), <<>>,
            <<" ">> \o Text("alpine")}

\* A name with a capital first letter.
Capitalized(name) ==
    IF name = <<>> THEN name ELSE <<UpperChar(Head(name))>> \o Tail(name)

\* What may follow the name: nothing, or ":" and a version.
SpecTails ==
    {<<>>, <<":">>, <<":">> \o Text("3.21"), <<":", "1", ":", "2">>, <<":", "X">>}

InitParse ==
    /\ fs = EmptyFs
    /\ now = FirstTime
    /\ calls = [p \in Procs |-> IdleCall]
    /\ \E name \in SpecNames, tail \in SpecTails :
         \E written \in {name, ToUpper(name), Capitalized(name)} :
           ret = [op |-> "args", spec |-> written \o tail]

\* The call of parse_distro_spec.
ParseSpecOp ==
    /\ ret.op = "args"
    /\ ret' = [op |-> "parse_distro_spec", spec |-> ret.spec,
               out |-> ParseDistroSpec(ret.spec)]
    /\ UNCHANGED <<fs, now, calls>>

NextParse == ParseSpecOp

SpecParse == InitParse /\ [][NextParse]_vars

\* The distributions a name stands for: those whose canonical slug or index
\* name is the name, letter case apart.
NamedBy(name) ==
    {d \in AllDistros : ToLower(name) \in {Text(AsStr(d)), Text(LxcName(d))}}

\* C20: parse_distro_spec maps the canonical slug and the index name of every
\* distribution, in any letter case, to that distribution; without ":" the
\* version is the default version of the distribution, with "name:version"
\* it is the text after the first ":", and every other name fails with
\* UnsupportedDistro.
C20_ParseDistroSpec ==
    ret.op = "parse_distro_spec" =>
      LET colons == {i \in DOMAIN ret.spec : ret.spec[i] = ":"}
          first == IF colons = {} THEN Len(ret.spec) + 1
                   ELSE CHOOSE i \in colons : \A j \in colons : i <= j
          name == SubSeq(ret.spec, 1, first - 1)
      IN  /\ Cardinality(NamedBy(name)) <= 1
          /\ \A d \in NamedBy(name) :
               /\ ret.out.status = "Ok"
               /\ ret.out.distro = d
               /\ ret.out.version =
                    IF colons = {} THEN DefaultVersion(d)
                    ELSE SubSeq(ret.spec, first + 1, Len(ret.spec))
          /\ NamedBy(name) = {} =>
               ret.out = [status |-> "Err", err |-> "UnsupportedDistro", name |-> name]

\* "ROCKYLINUX:3.21" was parsed as Rocky, version "3.21".
C20_Witness ==
    /\ ret.op = "parse_distro_spec"
    /\ ret.spec = ToUpper(Text("rockylinux")) \o <<":">> \o Text("3.21")
    /\ ret.out.status = "Ok"
    /\ ret.out.distro = "Rocky"
    /\ ret.out.version = Text("3.21")

----------------------------------------------------------------------------
\* SpecDownload: download_url, the body of a response received chunk by
\* chunk, with the progress callback as a log of its invocations.

\* Longest body, in bytes, and most chunks of one body.
MaxBody == 3
MaxChunks == 3

\* What response.content_length() may give: no length, or the length the
\* server advertises (which need not be the length of what arrives).
ContentLengths ==
    {[some |-> FALSE]} \cup {[some |-> TRUE, val |-> n] : n \in 0..MaxBody}

\* Option::unwrap_or(0).
UnwrapOr0(opt) == IF opt.some THEN opt.val ELSE 0

\* One chunk of a body; a stream may yield an empty chunk.
Chunks == SeqsUpTo(Bytes, 2)

InitDownload ==
    /\ fs = EmptyFs
    /\ now = FirstTime
    /\ calls = [p \in Procs |-> IdleCall]
    /\ ret = [op |-> "new"]

\* The body of the loop, but the callback is given the length of the chunk.
StreamStep_ChunkLen(c, chunk) ==
    LET downloaded == c.downloaded + Len(chunk)
        data == c.data \o chunk IN
    [c EXCEPT !.downloaded = downloaded,
              !.data = data,
              !.chunks = Append(@, chunk),
              !.progress = Append(@, [downloaded |-> Len(chunk), total |-> c.total,
                                      held |-> Len(data)])]

\* The body of the loop of download_url for one chunk: the counter advances,
\* the chunk is appended, the callback is invoked.  An invocation is logged
\* with its two arguments and the number of bytes held when it was made.
StreamStep(c, chunk) ==
    LET downloaded == c.downloaded + Len(chunk)
        data == c.data \o chunk IN
    [c EXCEPT !.downloaded = downloaded,
              !.data = data,
              !.chunks = Append(@, chunk),
              !.progress = Append(@, [downloaded |-> downloaded, total |-> c.total,
                                      held |-> Len(data)])]

\* download_url returns: what it was answered, what arrived, the log of the
\* callback and the outcome.
DownloadUrlReturn(p, c, out) ==
    /\ calls' = [calls EXCEPT ![p] = IdleCall]
    /\ ret' = [op |-> "download_url", length |-> c.length, chunks |-> c.chunks,
               progress |-> c.progress, out |-> out]

\* download_url is called: the client is built and send() is polled for the
\* first time.  The request is out and not answered.
DownloadUrlSend(p) ==
    /\ calls[p].pc = "idle"
    /\ calls' = [calls EXCEPT ![p] = [pc |-> "send"]]
    /\ ret' = [op |-> "await"]
    /\ UNCHANGED <<fs, now>>

\* send() is polled again and is ready: the request has failed, or the answer
\* is an error status, or the headers of the response have arrived.
DownloadUrlResponse(p, ok, length) ==
    /\ calls[p].pc = "send"
    /\ LET c == [pc |-> "stream", length |-> length, total |-> UnwrapOr0(length),
                 data |-> <<>>, downloaded |-> 0, chunks |-> <<>>, progress |-> <<>>] IN
       IF ok
       THEN calls' = [calls EXCEPT ![p] = c] /\ ret' = [op |-> "await"]
       ELSE DownloadUrlReturn(p, c, [status |-> "Err", err |-> "Http"])
    /\ UNCHANGED <<fs, now>>

\* stream.next() yields a chunk.
DownloadUrlChunk(p, chunk) ==
    /\ calls[p].pc = "stream"
    /\ Len(calls[p].chunks) < MaxChunks
    /\ Len(calls[p].data) + Len(chunk) <= MaxBody
    /\ calls' = [calls EXCEPT ![p] = StreamStep(@, chunk)]
    /\ ret' = [op |-> "await"]
    /\ UNCHANGED <<fs, now>>

\* stream.next() yields an error: chunk? returns it.
DownloadUrlChunkError(p) ==
    /\ calls[p].pc = "stream"
    /\ DownloadUrlReturn(p, calls[p], [status |-> "Err", err |-> "Http"])
    /\ UNCHANGED <<fs, now>>

\* stream.next() yields None: Ok(data).
DownloadUrlEnd(p) ==
    /\ calls[p].pc = "stream"
    /\ DownloadUrlReturn(p, calls[p], [status |-> "Ok", data |-> calls[p].data])
    /\ UNCHANGED <<fs, now>>

NextDownload ==
    \/ DownloadUrlSend(1)
    \/ \E ok \in BOOLEAN, length \in ContentLengths : DownloadUrlResponse(1, ok, length)
    \/ \E chunk \in Chunks : DownloadUrlChunk(1, chunk)
    \/ DownloadUrlChunkError(1)
    \/ DownloadUrlEnd(1)

SpecDownload == InitDownload /\ [][NextDownload]_vars

\* The download in flight, or the one that returned last.
DownloadSeen ==
    IF calls[1].pc = "stream" THEN {calls[1]}
    ELSE IF ret.op = "download_url" THEN {ret}
    ELSE {}

RECURSIVE TotalLen(_)
\* The number of bytes of a sequence of chunks.
TotalLen(chunks) ==
    IF chunks = <<>> THEN 0 ELSE Len(Last(chunks)) + TotalLen(Front(chunks))

\* C26: the progress callback is invoked once per received chunk, after the
\* chunk has been appended, with the number of bytes received so far, which
\* never decreases and on the last call is the length of the returned
\* payload, and with a total that is the same on every call: the advertised
\* length, or 0 when the server advertises none.
C26_Progress ==
    \A d \in DownloadSeen :
       /\ Len(d.progress) = Len(d.chunks)
       /\ \A i \in DOMAIN d.progress :
            /\ d.progress[i].downloaded = TotalLen(SubSeq(d.chunks, 1, i))
            /\ d.progress[i].held = d.progress[i].downloaded
            /\ i > 1 => d.progress[i - 1].downloaded <= d.progress[i].downloaded
            /\ d.progress[i].total = (IF d.length.some THEN d.length.val ELSE 0)
       /\ ret.op = "download_url" /\ ret.out.status = "Ok" =>
            /\ Len(ret.out.data) = TotalLen(ret.chunks)
            /\ ret.progress # <<>> => Last(ret.progress).downloaded = Len(ret.out.data)

\* A body of three bytes has arrived in three chunks, one of them empty, from
\* a server that advertised no length: the callback was given 1, 1 and 3
\* bytes, each time with total 0.
C26_Witness ==
    /\ ret.op = "download_url"
    /\ ret.out.status = "Ok"
    /\ ~ret.length.some
    /\ Len(ret.out.data) = MaxBody
    /\ Len(ret.progress) = 3
    /\ ret.progress[1].downloaded = 1
    /\ ret.progress[2].downloaded = 1
    /\ ret.progress[3] = [downloaded |-> 3, total |-> 0, held |-> 3]

----------------------------------------------------------------------------
(* The same caller with nothing going wrong on the disk: no write and no     *)
(* removal fails, nothing else touches the cache.  The network still answers *)
(* as it pleases, and the index names the archive files as it pleases.       *)

\* The index the mirror serves: the archive of alpine 1 is named
\* "rootfs.tar.xz", that of debian bookworm "metadata.json".
NamingIndex ==
    [products |->
       (<<"alpine", <<"1">>, "arm64", "default">> :>
            [versions |-> (<<1>> :> Build(RootItem(<<1>>, "rootfs.tar.xz")))])
       @@ (<<"debian", <<"bookworm">>, "amd64", "default">> :>
            [versions |-> (<<1>> :> Build(RootItem(<<0>>, MetadataFile)))])]

NamingResponses ==
    {[status |-> "Err", err |-> "Http"], [status |-> "Ok", index |-> NamingIndex]}

QuietRequests == {<<"Alpine", <<"1">>, "Aarch64">>, <<"Debian", <<"12">>, "X86_64">>}

NextQuiet ==
    \/ \E req \in QuietRequests :
         \E rm \in {x \in LookupRemovals(fs, EntryDir(req[1], req[2], req[3])) : x.ok} :
           EnsureLookup(Caller, req, rm)
    \/ \E ok \in BOOLEAN : FetchIndexSend(Caller, ok)
    \/ \E resp \in NamingResponses :
         \E pick \in IndexPicks(Caller, resp) : FetchIndex(Caller, resp, pick)
    \/ \E chunk \in Payloads : DownloadChunk(Caller, chunk)
    \/ DownloadFail(Caller)
    \/ EnsureFinish(Caller, NoFault)
    \/ \E first \in ListFirsts(fs, CacheRoot) : ListCached(Caller, first)
    \/ \E keep_latest \in 0..MaxKeep, first \in ListFirsts(fs, CacheRoot) :
         \E victims \in PruneVictims(fs, CacheRoot, keep_latest) :
           \E plan \in {x \in PrunePlans(fs, victims) : x.failed = {}} :
             PruneOp(Caller, keep_latest, first, victims, plan)
    \/ Tick

SpecQuiet == Init /\ [][NextQuiet]_vars

\* The directories that hold a metadata file that decodes: the entries on
\* disk.
EntriesOnDisk(f) ==
    {d \in f.dirs : /\ IsFile(f, Append(d, MetadataFile))
                    /\ f.files[Append(d, MetadataFile)].kind = "json"}

\* The entry of directory d is valid: the archive its metadata names is a
\* file of the recorded size whose SHA-256 is the recorded hash.
SoundEntry(f, d) ==
    LET metadata == f.files[Append(d, MetadataFile)].meta
        archive_path == PathJoinName(d, metadata.filename) IN
    /\ IsFile(f, archive_path)
    /\ f.files[archive_path].kind = "bytes"
    /\ Sha256Hex(f.files[archive_path].data) = metadata.sha256
    /\ Len(f.files[archive_path].data) = metadata.size

\* C27: in every state one caller reaches with ensure, list and prune, the
\* disk failing nothing and nothing else touching the cache, every entry on
\* disk is valid: the recorded hash is the SHA-256 of the archive file, the
\* recorded size is its length, and the hash is the one of the index the
\* download was verified against.
C27_EntriesValid ==
    /\ \A d \in EntriesOnDisk(fs) : SoundEntry(fs, d)
    /\ ret.op = "ensure" /\ ret.stage = "store" /\ ret.out.status = "Ok" =>
         ret.out.cached.metadata.sha256 = ret.call.resolved.sha256

----------------------------------------------------------------------------
(* The two concurrent callers, on a cache that is empty or whose entry for   *)
(* their key is corrupted: in the second both lookups may evict.  The        *)
(* integrity check of a lookup is a step, and so is every call of the        *)
(* filesystem that the removal after it makes.                               *)

EvictDir == EntryDir(ConcRequest[1], ConcRequest[2], ConcRequest[3])

\* A stored result whose hash is not the digest of its payload.
StaleResult == [data |-> <<1>>, sha256 |-> DeadBeef, filename |-> "rootfs.tar.xz"]

\* RootfsManager::new(CacheRoot) on an empty cache, or on the cache after
\* create_dir_all(EvictDir) and store(EvictDir, StaleResult).
InitConc ==
    /\ ret \in {[op |-> "new", cache |-> c] : c \in {"empty", "corrupted"}}
    /\ fs = IF ret.cache = "empty" THEN EmptyFs
            ELSE Store(CreateDirAll(EmptyFs, EvictDir).fs, EvictDir, StaleResult,
                       FirstTime, NoFault).fs
    /\ now = FirstTime
    /\ calls = [p \in Procs |-> IdleCall]

\* load_cached: verify_integrity; an entry that fails it is to be removed.
\* seen is the disk as it was when the archive was read.
EvictCheck(p) ==
    /\ calls[p].pc = "verify"
    /\ LET cached == [archive_path |-> PathJoinName(calls[p].entry_dir,
                                                     calls[p].metadata.filename),
                      metadata |-> calls[p].metadata]
           v == VerifyIntegrity(fs, cached) IN
       IF v.status = "Err" THEN ConcReturn(p, v)
       ELSE IF v.val THEN ConcReturn(p, [status |-> "Ok", cached |-> cached])
       ELSE calls' = [calls EXCEPT ![p] =
                        [pc |-> "evict", downloaded |-> FALSE,
                         entry_dir |-> calls[p].entry_dir,
                         metadata |-> calls[p].metadata, seen |-> fs]]
    /\ UNCHANGED <<fs, now, ret>>

\* The file the store of call q has open for writing, if any.
OpenForWrite(q) ==
    IF calls[q].pc = "write_archive"
    THEN {PathJoinName(calls[q].entry_dir, calls[q].result.filename)}
    ELSE IF calls[q].pc = "write_meta" THEN {Append(calls[q].entry_dir, MetadataFile)}
    ELSE {}

\* load_cached goes on as "not cached" after let _ = remove_dir_all(..).
EvictMiss(p) ==
    [pc |-> "fetch_index", downloaded |-> TRUE, entry_dir |-> calls[p].entry_dir]

\* remove_dir_all: the entry directory is opened and read.  todo is what
\* read_dir is to yield: the entries there are now.  Without the directory
\* remove_dir_all fails at once.
EvictOpenDir(p) ==
    /\ calls[p].pc = "evict"
    /\ IF IsDir(fs, calls[p].entry_dir)
       THEN calls' = [calls EXCEPT ![p] =
                        [pc |-> "evict_walk", downloaded |-> FALSE,
                         entry_dir |-> calls[p].entry_dir, seen |-> calls[p].seen,
                         todo |-> ReadDir(fs, calls[p].entry_dir), unlinked |-> <<>>]]
       ELSE calls' = [calls EXCEPT ![p] = EvictMiss(p)]
    /\ UNCHANGED <<fs, now, ret>>

\* remove_dir_all: read_dir yields q, an entry of todo or a file made since
\* the directory was opened, and q is unlinked; an entry that is gone by now
\* is passed over.  A file another call has open for writing is unlinked as
\* any other: what that call writes next reaches no path.
EvictUnlink(p, q) ==
    /\ calls[p].pc = "evict_walk"
    /\ q \in calls[p].todo \cup {x \in ReadDir(fs, calls[p].entry_dir) : IsFile(fs, x)}
    /\ fs' = [fs EXCEPT !.files = [x \in DOMAIN @ \ {q} |-> @[x]]]
    /\ calls' = [o \in Procs |->
                   IF o = p
                   THEN [calls[p] EXCEPT !.todo = @ \ {q},
                                         !.unlinked = IF IsFile(fs, q) THEN Append(@, q)
                                                      ELSE @]
                   ELSE IF ~(q \in OpenForWrite(o)) THEN calls[o]
                   ELSE IF calls[o].pc = "write_archive"
                   THEN [calls[o] EXCEPT !.pc = "lost_archive"]
                   ELSE [calls[o] EXCEPT !.pc = "lost_meta"]]
    /\ UNCHANGED <<now, ret>>

\* remove_dir_all: read_dir has yielded every entry of todo and ends; the
\* directory is removed when it is there and empty.  load_cached drops the
\* result.
EvictRmdir(p) ==
    /\ calls[p].pc = "evict_walk"
    /\ calls[p].todo = {}
    /\ fs' = IF IsDir(fs, calls[p].entry_dir) /\ ReadDir(fs, calls[p].entry_dir) = {}
             THEN [fs EXCEPT !.dirs = @ \ {calls[p].entry_dir}]
             ELSE fs
    /\ calls' = [calls EXCEPT ![p] = EvictMiss(p)]
    /\ UNCHANGED <<now, ret>>

\* remove_dir_all: a call of the walk is refused, remove_dir_all returns the
\* error with the rest of the directory in place; load_cached drops it.
EvictAbort(p) ==
    /\ calls[p].pc = "evict_walk"
    /\ calls' = [calls EXCEPT ![p] = EvictMiss(p)]
    /\ UNCHANGED <<fs, now, ret>>

\* store: the payload is written to an archive file that has been unlinked.
EvictWriteLostArchive(p) ==
    /\ calls[p].pc = "lost_archive"
    /\ calls' = [calls EXCEPT ![p] =
                   [pc |-> "open_meta", downloaded |-> TRUE,
                    entry_dir |-> calls[p].entry_dir,
                    archive_path |-> PathJoinName(calls[p].entry_dir,
                                                  calls[p].result.filename),
                    metadata |-> StoreMetadata(calls[p].entry_dir, calls[p].result, now)]]
    /\ UNCHANGED <<fs, now, ret>>

\* store: the metadata text is written to a file that has been unlinked;
\* ensure returns the entry.
EvictWriteLostMeta(p) ==
    /\ calls[p].pc = "lost_meta"
    /\ ConcReturn(p, [status |-> "Ok",
                      cached |-> [archive_path |-> calls[p].archive_path,
                                  metadata |-> calls[p].metadata]])
    /\ UNCHANGED <<fs, now, ret>>

NextConc ==
    \E p \in Procs :
      \/ ConcStart(p)
      \/ ConcMetaExists(p)
      \/ ConcReadMeta(p)
      \/ ConcArchiveExists(p)
      \/ EvictCheck(p)
      \/ EvictOpenDir(p)
      \/ \E q \in ReadDir(fs, EvictDir) \cup
                  (IF calls[p].pc = "evict_walk" THEN calls[p].todo ELSE {}) :
           EvictUnlink(p, q)
      \/ EvictRmdir(p)
      \/ EvictAbort(p)
      \/ ConcFetchIndexSend(p)
      \/ \E pick \in ResolvePicks(LxcIndex, ConcRequest[1], ConcRequest[2], ConcRequest[3]) :
           ConcFetchIndex(p, pick)
      \/ ConcDownloadResponse(p)
      \/ ConcDownloadChunk(p)
      \/ ConcDownload(p)
      \/ ConcMkdir(p)
      \/ ConcMkdirIsDir(p)
      \/ ConcOpenArchive(p)
      \/ ConcWriteArchive(p)
      \/ EvictWriteLostArchive(p)
      \/ ConcOpenMeta(p)
      \/ ConcWriteMeta(p)
      \/ EvictWriteLostMeta(p)

SpecConc == InitConc /\ [][NextConc]_vars

\* C10: two ensure calls for the same key running concurrently from an empty
\* cache and downloading the same content both download, both succeed, and
\* once both have finished the entry is present and valid, under every
\* interleaving of their steps.
C10_BothDownloadBothSucceed ==
    ret.cache = "empty" =>
      /\ \A p \in Procs :
           calls[p].pc = "done" => calls[p].downloaded /\ calls[p].out.status = "Ok"
      /\ (\A p \in Procs : calls[p].pc = "done") =>
           ValidEntry(fs, EntryDir(ConcRequest[1], ConcRequest[2], ConcRequest[3]))

\* C28: the removal of a lookup that evicts deletes only the corrupted
\* content that lookup verified: when the entry on disk was corrupted at the
\* integrity check, no step of the removal deletes a valid entry that
\* another call has written since.
C28_EvictsOnlyCorrupted ==
    [][\A p \in Procs :
         /\ calls[p].pc \in {"evict", "evict_walk"}
         /\ calls'[p] # calls[p]
         /\ ~ValidEntry(calls[p].seen, calls[p].entry_dir)
         /\ ValidEntry(fs, calls[p].entry_dir)
         => ValidEntry(fs', calls[p].entry_dir)]_vars

----------------------------------------------------------------------------
(* One caller on a cache whose metadata files something outside the program  *)
(* may overwrite with text that is no metadata record, or with bytes that    *)
(* are no text at all.                                                       *)

\* What a metadata file is overwritten with: nothing, a control character,
\* and a byte that occurs in no UTF-8 text.
GarbledTexts == {<<>>, <<1>>, <<255>>}

DecodeDirs == {EntryDir(req[1], req[2], req[3]) : req \in QuietRequests}

NextDecode ==
    \/ \E req \in QuietRequests :
         \E rm \in {x \in LookupRemovals(fs, EntryDir(req[1], req[2], req[3])) : x.ok} :
           EnsureLookup(Caller, req, rm)
    \/ \E ok \in BOOLEAN : FetchIndexSend(Caller, ok)
    \/ \E resp \in IndexResponses :
         \E pick \in IndexPicks(Caller, resp) : FetchIndex(Caller, resp, pick)
    \/ \E chunk \in IntactChunks(Caller) : DownloadChunk(Caller, chunk)
    \/ EnsureFinish(Caller, NoFault)
    \/ \E dir \in DecodeDirs :
         \E rm \in {x \in LookupRemovals(fs, dir) : x.ok} : LoadCachedOp(dir, rm)
    \/ \E first \in ListFirsts(fs, CacheRoot) : ListCached(Caller, first)
    \/ \E keep_latest \in 0..MaxKeep, first \in ListFirsts(fs, CacheRoot) :
         \E victims \in PruneVictims(fs, CacheRoot, keep_latest) :
           \E plan \in {x \in PrunePlans(fs, victims) : x.failed = {}} :
             PruneOp(Caller, keep_latest, first, victims, plan)
    \/ \E dir \in DecodeDirs, data \in GarbledTexts :
         TamperFile(Append(dir, MetadataFile), data)

SpecDecode == Init /\ [][NextDecode]_vars

\* The metadata file of directory d exists and cannot be decoded.
Undecodable(f, d) ==
    /\ IsFile(f, Append(d, MetadataFile))
    /\ f.files[Append(d, MetadataFile)].kind # "json"

JsonError == [status |-> "Err", err |-> "Json"]

\* C30: when the metadata file of an entry exists and cannot be decoded, a
\* lookup and an ensure for its key, and a listing and a prune of the cache,
\* return the metadata-decode error and change nothing on disk; ensure sends
\* no request.
C30_UndecodableMetadata ==
    [][/\ ret'.op = "load_cached" /\ Undecodable(fs, ret'.dir) =>
            ret'.out = JsonError /\ fs' = fs
       /\ ret'.op = "ensure" /\ ret'.stage = "lookup"
            /\ Undecodable(fs, ret'.call.entry_dir) =>
            ret'.out = JsonError /\ ret'.log = <<>> /\ fs' = fs
       /\ calls[Caller].pc = "idle" /\ calls'[Caller].pc = "fetch_index" =>
            ~Undecodable(fs, calls'[Caller].entry_dir)
       /\ ret'.op \in {"list", "prune"}
            /\ (\E d \in DepthThree(fs, CacheRoot) : Undecodable(fs, d)) =>
            ret'.out = JsonError /\ fs' = fs]_vars

====
